---- MODULE Spec2Model ----
(***************************************************************************)
(* Model of the agent loop of Neos21/unprompted: Agent.start / Agent.loop  *)
(* / Agent.executeProposal (src/unnamed/part_004, second class) and the    *)
(* Logger (src/src/logger.ts, second class).                               *)
(*                                                                         *)
(* Text is modelled as sequences of one-character strings, so that         *)
(* String.startsWith, String.includes and String.split are computed as     *)
(* the code computes them.                                                 *)
(***************************************************************************)
EXTENDS Integers, Sequences, FiniteSets, TLC

\* ------------------------------------------------------------------ bounds
MaxIter == 3

MaxLlmIter == 2

MaxFaults == 2

MaxProposals == 2

\* ------------------------------------------------------------ text values
\* A JavaScript value of a plan field: absent (undefined), a string, or a
\* truthy non-string such as the number 5.
Absent == [tag |-> "absent", s |-> <<>>]

Str(s) == [tag |-> "str", s |-> s]

Num == [tag |-> "num", s |-> <<>>]

\* an array of strings
List(s) == [tag |-> "list", s |-> s]

\* JavaScript truthiness of a field value
Truthy(v) == v.tag \in {"num", "list"} \/ (v.tag = "str" /\ v.s # <<>>)

IsString(v) == v.tag = "str"

\* String.prototype.startsWith
startsWith(s, p) == Len(s) >= Len(p) /\ SubSeq(s, 1, Len(p)) = p

\* String.prototype.includes
includes(s, needle) ==
  \E i \in 0..(Len(s) - Len(needle)) : SubSeq(s, i + 1, i + Len(needle)) = needle

\* String.prototype.split(sep) for a one-character separator
RECURSIVE split(_, _)
split(s, sep) ==
  IF s = <<>> THEN << <<>> >>
  ELSE LET rest == split(Tail(s), sep) IN
       IF Head(s) = sep THEN << <<>> >> \o rest
       ELSE << <<Head(s)>> \o Head(rest) >> \o Tail(rest)

\* String.prototype.trim (spaces only)
RECURSIVE trimLeft(_)
trimLeft(s) == IF s # <<>> /\ Head(s) = " " THEN trimLeft(Tail(s)) ELSE s

RECURSIVE trimRight(_)
trimRight(s) ==
  IF s # <<>> /\ s[Len(s)] = " " THEN trimRight(SubSeq(s, 1, Len(s) - 1)) ELSE s

trim(s) == trimRight(trimLeft(s))

\* ------------------------------------------------------------------ paths
sOutputs == <<"o", "u", "t", "p", "u", "t", "s">>

\* process.cwd()
Cwd == <<"/", "w">>

\* normalisation of the segments of a path: '' and '.' are dropped, '..'
\* removes the segment before it (and stays at the root)
RECURSIVE normalizeSegments(_, _)
normalizeSegments(segs, stack) ==
  IF segs = <<>> THEN stack
  ELSE LET h == Head(segs) IN
       IF h = <<>> \/ h = <<".">> THEN normalizeSegments(Tail(segs), stack)
       ELSE IF h = <<".", ".">>
            THEN normalizeSegments(Tail(segs),
                   IF stack = <<>> THEN stack ELSE SubSeq(stack, 1, Len(stack) - 1))
            ELSE normalizeSegments(Tail(segs), Append(stack, h))

RECURSIVE joinSegments(_)
joinSegments(segs) ==
  IF segs = <<>> THEN <<>> ELSE <<"/">> \o Head(segs) \o joinSegments(Tail(segs))

\* path.resolve(base, p): absolute, '..' resolved
pathResolve(base, p) ==
  LET full == IF p # <<>> /\ Head(p) = "/" THEN p ELSE base \o <<"/">> \o p
      segs == normalizeSegments(split(full, "/"), <<>>)
  IN  IF segs = <<>> THEN <<"/">> ELSE joinSegments(segs)

\* path.dirname of an absolute normalised path
pathDirname(p) ==
  LET segs == normalizeSegments(split(p, "/"), <<>>) IN
  IF Len(segs) <= 1 THEN <<"/">> ELSE joinSegments(SubSeq(segs, 1, Len(segs) - 1))

\* path.resolve(process.cwd(), 'outputs')
outputsDir == pathResolve(Cwd, sOutputs)

\* this.statePath: path.join(process.cwd(), 'outputs', 'state.yaml'); the
\* file name is shortened to one letter
statePath == outputsDir \o <<"/", "s">>

\* ------------------------------------------------------------ plan values
\* minimum length of proposal.details after trimming
MinDetailsLen == 15

\* proposal files written in one run of the store model
MaxStoreFiles == 3

\* allowedTypes
allowedTypes == {"SHELL", "FILE_WRITE", "PROPOSAL"}

\* allowedShellCommands
allowedShellCommands ==
  { <<"l", "s">>, <<"c", "a", "t">>, <<"d", "a", "t", "e">>, <<"p", "w", "d">>,
    <<"w", "h", "o", "a", "m", "i">>, <<"c", "u", "r", "l">> }

\* the proposal payload of a plan (PlanProposal); present = FALSE stands for
\* a plan without a proposal object.  risks / benefits are list lengths,
\* approved is the value of an 'approved' key, "absent" when there is none.
NoProposal ==
  [present |-> FALSE, type |-> "", title |-> Absent, reasoning |-> Absent,
   details |-> Absent, risks |-> 0, benefits |-> 0, targetFile |-> Absent,
   command |-> Absent, approved |-> "absent", approve |-> "absent"]

\* plan.state, the patch of the continuity state; present = FALSE stands
\* for a plan whose state key is missing or holds no object
NoPatch ==
  [present |-> FALSE, goal |-> Absent, milestones |-> Absent, progress |-> Absent,
   nextFocus |-> Absent, blockers |-> Absent, history |-> Absent]

\* a plan (Plan): type is "" when the key is missing
NoPlan ==
  [type |-> "", action |-> Absent, command |-> Absent, target |-> Absent,
   content |-> Absent, appendMode |-> FALSE, proposal |-> NoProposal,
   state |-> NoPatch, intent |-> Absent]

\* ------------------------------------------------------------ the validator
\* the command string a SHELL plan runs: plan.command || plan.action
rawCommandOf(plan) == IF Truthy(plan.command) THEN plan.command ELSE plan.action

\* (rawCommand || '').split(' ')[0]
firstToken(rawCommand) ==
  Head(split(IF Truthy(rawCommand) THEN rawCommand.s ELSE <<>>, " "))

\* the text of a raw response that a substring search can hit: the string
\* fields of the object it carries
rawStrings(plan) ==
  { v.s : v \in { w \in {plan.action, plan.command, plan.target, plan.content,
                          plan.proposal.command, plan.proposal.targetFile} :
                  IsString(w) } }

\* fs.existsSync
existsSync(fsFiles, fsDirs, p) == p \in DOMAIN fsFiles \/ p \in fsDirs

\* validatePlan throws a TypeError where it calls a string method or
\* path.resolve on a truthy non-string
validateThrows(candidate) ==
  \/ candidate.type = "SHELL" /\ rawCommandOf(candidate).tag = "num"
  \/ /\ candidate.type = "PROPOSAL"
     /\ candidate.proposal.present
     /\ candidate.proposal.type = "CODE_EXECUTE"
     /\ candidate.proposal.targetFile.tag = "num"
  \/ candidate.type = "FILE_WRITE" /\ candidate.target.tag = "num"

proposalErrors(p, fsFiles, fsDirs) ==
  (IF p.type = "" \/ ~Truthy(p.title) \/ ~Truthy(p.reasoning) \/ ~Truthy(p.details)
   THEN <<"proposalRequired">> ELSE <<>>)
  \o (IF Truthy(p.title) /\ Truthy(p.reasoning) /\ p.title = p.reasoning
      THEN <<"titleIsReasoning">> ELSE <<>>)
  \o (IF Truthy(p.details) /\ Truthy(p.reasoning) /\ p.details = p.reasoning
      THEN <<"detailsIsReasoning">> ELSE <<>>)
  \o (IF Truthy(p.details) /\ IsString(p.details)
         /\ Len(trim(p.details.s)) < MinDetailsLen
      THEN <<"detailsShort">> ELSE <<>>)
  \o (IF p.risks = 0 THEN <<"risks">> ELSE <<>>)
  \o (IF p.benefits = 0 THEN <<"benefits">> ELSE <<>>)
  \o (IF p.type = "CODE_EXECUTE"
      THEN (IF ~Truthy(p.targetFile) THEN <<"noTargetFile">> ELSE <<>>)
           \o (IF ~Truthy(p.command) THEN <<"noCommand">> ELSE <<>>)
           \o (IF Truthy(p.targetFile) /\ IsString(p.targetFile)
                  /\ LET resolved == pathResolve(Cwd, p.targetFile.s) IN
                     ~startsWith(resolved, outputsDir)
                     \/ ~existsSync(fsFiles, fsDirs, resolved)
               THEN <<"targetFileMissing">> ELSE <<>>)
      ELSE <<>>)

\* the read-before-overwrite rule: recentRaws are the plans carried by the
\* responseRaw of the recent log entries
unreadOverwrite(candidate, recentRaws, fsFiles, fsDirs) ==
  /\ candidate.type = "FILE_WRITE"
  /\ Truthy(candidate.target)
  /\ IsString(candidate.target)
  /\ LET resolvedTarget == pathResolve(Cwd, candidate.target.s)
         needle == <<"c", "a", "t", " ">> \o candidate.target.s
     IN  /\ startsWith(resolvedTarget, outputsDir)
         /\ existsSync(fsFiles, fsDirs, resolvedTarget)
         /\ ~\E r \in recentRaws : \E s \in rawStrings(r) : includes(s, needle)

\* a validatePlan that returns at the first violation it finds
validatePlanShortCircuit(candidate, recentRaws, fsFiles, fsDirs) ==
  IF candidate.type = "" \/ candidate.type \notin allowedTypes THEN <<"badType">>
  ELSE IF ~Truthy(candidate.action) \/ ~IsString(candidate.action) THEN <<"noAction">>
  ELSE IF candidate.type = "SHELL"
          /\ firstToken(rawCommandOf(candidate)) \notin allowedShellCommands
  THEN <<"shellCommand">>
  ELSE IF candidate.type = "PROPOSAL" /\ ~candidate.proposal.present THEN <<"noProposal">>
  ELSE IF candidate.type = "PROPOSAL"
          /\ proposalErrors(candidate.proposal, fsFiles, fsDirs) # <<>>
  THEN <<Head(proposalErrors(candidate.proposal, fsFiles, fsDirs))>>
  ELSE IF unreadOverwrite(candidate, recentRaws, fsFiles, fsDirs) THEN <<"unreadOverwrite">>
  ELSE <<>>

\* validatePlan: the list of violations, in the order the code pushes them
validatePlan(candidate, recentRaws, fsFiles, fsDirs) ==
  (IF candidate.type = "" \/ candidate.type \notin allowedTypes
   THEN <<"badType">> ELSE <<>>)
  \o (IF candidate.type = "FILE_READ" THEN <<"fileRead">> ELSE <<>>)
  \o (IF ~Truthy(candidate.action) \/ ~IsString(candidate.action)
      THEN <<"noAction">> ELSE <<>>)
  \o (IF candidate.type = "SHELL"
         /\ firstToken(rawCommandOf(candidate)) \notin allowedShellCommands
      THEN <<"shellCommand">> ELSE <<>>)
  \o (IF candidate.type = "PROPOSAL"
      THEN IF ~candidate.proposal.present THEN <<"noProposal">>
           ELSE proposalErrors(candidate.proposal, fsFiles, fsDirs)
      ELSE <<>>)
  \o (IF unreadOverwrite(candidate, recentRaws, fsFiles, fsDirs)
      THEN <<"unreadOverwrite">> ELSE <<>>)

\* --------------------------------------------------- the model's responses
\* strings the language model can put into a plan
sAct == <<"x">>

pA == sOutputs \o <<"/", "a">>

pB == sOutputs \o <<"/", "d", "/", "b">>

pSibling == sOutputs \o <<"2", "/", "b">>

pEscape == sOutputs \o <<"/", ".", ".", "/", "s">>

sLs == <<"l", "s">>

sLsRedirect == <<"l", "s", " ", ">", " ", "x">>

sCatPipe == <<"c", "a", "t", " ">> \o pA \o <<"|", "x">>

sCatA == <<"c", "a", "t", " ">> \o pA

sCurl == <<"c", "u", "r", "l", " ", "u">>

sRm == <<"r", "m", " ", "a">>

sDetails == [i \in 1..MinDetailsLen |-> "d"]

ShellPlan(cmd) == [NoPlan EXCEPT !.type = "SHELL", !.action = Str(sAct), !.command = cmd]

WritePlan(target, content, append) ==
  [NoPlan EXCEPT !.type = "FILE_WRITE", !.action = Str(sAct), !.target = target,
                 !.content = content, !.appendMode = append]

GoodProposal ==
  [NoProposal EXCEPT !.present = TRUE, !.type = "OTHER", !.title = Str(<<"t">>),
                     !.reasoning = Str(<<"r">>), !.details = Str(sDetails),
                     !.risks = 1, !.benefits = 1]

ProposalPlan(p) == [NoPlan EXCEPT !.type = "PROPOSAL", !.action = Str(sAct), !.proposal = p]

\* the plans the language model answers with
Plans ==
  << ShellPlan(Str(sLs)),
     ShellPlan(Str(sLsRedirect)),
     [ShellPlan(Absent) EXCEPT !.action = Str(sCatPipe)],
     ShellPlan(Str(sRm)),
     ShellPlan(Num),
     ShellPlan(Str(sCatA)),
     ShellPlan(Str(sCurl)),
     [ShellPlan(Str(sLs)) EXCEPT !.target = Num],
     WritePlan(Str(pB), Str(<<"h">>), FALSE),
     WritePlan(Str(pA), Str(<<"h">>), TRUE),
     WritePlan(Str(sOutputs), Str(<<"h">>), FALSE),
     WritePlan(Str(pB), Absent, FALSE),
     WritePlan(Str(pSibling), Str(<<"h">>), FALSE),
     WritePlan(Str(pEscape), Str(<<"h">>), FALSE),
     WritePlan(Absent, Str(<<"h">>), FALSE),
     ProposalPlan(GoodProposal),
     ProposalPlan([GoodProposal EXCEPT !.approved = "true"]),
     ProposalPlan([GoodProposal EXCEPT !.title = Absent]),
     ProposalPlan([GoodProposal EXCEPT !.type = "CODE_EXECUTE",
                                       !.targetFile = Str(pSibling),
                                       !.command = Str(<<"n">>)]),
     [NoPlan EXCEPT !.type = "OBSERVE", !.action = Str(sAct)] >>

\* the term that sanitizeGoalText filters (two characters in the source)
boredomTerm == <<"T", "K">>

Patch(goal, milestones, progress, nextFocus, blockers, history) ==
  [present |-> TRUE, goal |-> goal, milestones |-> milestones, progress |-> progress,
   nextFocus |-> nextFocus, blockers |-> blockers, history |-> history]

\* a plan that passes validation and carries a state patch and an intent
StatePlan(patch, intent) ==
  [ShellPlan(Str(sLs)) EXCEPT !.state = patch, !.intent = intent]

\* the plans with a state patch or an intent: an intent alone, a patch of
\* all fields (and a history key, which the code never reads), a goal with
\* the filtered term, a progress with the filtered term, a goal that is no
\* string, a nextFocus alone
StatePlans ==
  << StatePlan(NoPatch, Str(<<"i">>)),
     StatePlan(Patch(Str(<<"G">>), List(<< <<"M">> >>), Str(<<"P">>), Str(<<"F">>),
                     List(<< <<"K">> >>), List(<< <<"H">> >>)), Absent),
     StatePlan(Patch(Str(<<"G">> \o boredomTerm), Absent, Absent, Absent, Absent, Absent),
               Absent),
     StatePlan(Patch(Absent, Absent, Str(boredomTerm \o <<"P">>), Absent, Absent, Absent),
               Absent),
     StatePlan(Patch(Num, Absent, Absent, Absent, Absent, Absent), Absent),
     StatePlan(Patch(Absent, Absent, Absent, Str(<<"F">>), Absent, Absent), Absent) >>

\* A raw response is a sequence of tokens: prose "txt", the fence markers
\* "FENCEJSON" and "FENCE" (three backquotes with and without json),
\* the braces, and between braces either "BODY" (the members of the object
\* body, well-formed JSON) or "BAD" (members that JSON.parse rejects).
Raw(toks, body) == [toks |-> toks, body |-> body]

Responses ==
  [i \in 1..Len(Plans) |-> Raw(<<"{", "BODY", "}">>, Plans[i])]
  \o << Raw(<<"txt">>, NoPlan),
        Raw(<<"{", "BAD", "}">>, NoPlan),
        Raw(<<"{", "txt", "}", "{", "BODY", "}">>, Plans[1]),
        Raw(<<"txt", "FENCEJSON", "{", "BODY", "}", "FENCE", "txt">>, Plans[1]) >>
  \o [i \in 1..Len(StatePlans) |-> Raw(<<"{", "BODY", "}">>, StatePlans[i])]

\* the answers without a state patch and without an intent
PlainResponses ==
  {i \in 1..Len(Responses) :
     Responses[i].body.state = NoPatch /\ Responses[i].body.intent = Absent}

\* the answers that pass validation and differ in patch and intent only
StateResponses == {1} \cup ((1..Len(Responses)) \ PlainResponses)

\* the answers to a repair prompt (indices in Responses): a read, an
\* append, a proposal, a command that is not allowed, a command that is not
\* a string, and prose without JSON
RepairResponses ==
  {i \in 1..Len(Responses) :
     Responses[i] \in
       { Raw(<<"{", "BODY", "}">>, ShellPlan(Str(sLs))),
         Raw(<<"{", "BODY", "}">>, ShellPlan(Str(sCatA))),
         Raw(<<"{", "BODY", "}">>, ShellPlan(Str(sRm))),
         Raw(<<"{", "BODY", "}">>, ShellPlan(Num)),
         Raw(<<"{", "BODY", "}">>, WritePlan(Str(pA), Str(<<"h">>), TRUE)),
         Raw(<<"{", "BODY", "}">>, ProposalPlan(GoodProposal)),
         Raw(<<"txt">>, NoPlan) }}

\* ------------------------------------------------------------- the parser
\* the two replace calls that delete the code-fence markers
cleanRaw(toks) == SelectSeq(toks, LAMBDA k : k \notin {"FENCEJSON", "FENCE"})

\* cleanRaw.match(/\{[\s\S]*\}/): from the first '{' to the last '}'
jsonMatch(clean) ==
  LET opens == {i \in 1..Len(clean) : clean[i] = "{"}
      closes == {i \in 1..Len(clean) : clean[i] = "}"}
  IN  IF opens = {} \/ closes = {} THEN <<>>
      ELSE LET first == CHOOSE i \in opens : \A j \in opens : i <= j
               last == CHOOSE i \in closes : \A j \in closes : i >= j
           IN  IF last < first THEN <<>> ELSE SubSeq(clean, first, last)

\* parsePlan: ok = FALSE when it throws (no match, or JSON.parse rejects)
parsePlan(raw) ==
  LET m == jsonMatch(cleanRaw(raw.toks)) IN
  IF m = <<"{", "BODY", "}">> THEN [ok |-> TRUE, plan |-> raw.body]
  ELSE [ok |-> FALSE, plan |-> NoPlan]

\* ------------------------------------------------------------------ state
VARIABLES
  pc,                 \* where Agent.start / Agent.loop stands
  iter,               \* iterations of the while loop started so far
  llmIter,            \* initial requests the language model has answered so far
  boredom,            \* Agent.boredom
  logs,               \* the files of logs/, oldest first
  fsFiles,            \* regular files: absolute path -> content
  fsDirs,             \* directories: set of absolute paths
  proposals,          \* the files of proposals/: id -> stored record
  nextId,             \* the clock value the next proposal id is made of
  recentLogs,         \* loop: const recentLogs
  approvedProposals,  \* loop: the approved proposals still to dispatch
  responseRaw,        \* loop: const responseRaw (index in Responses, 0 = none)
  plan,               \* loop: let plan
  planErrors,         \* loop: let planErrors
  resultLog,          \* loop: let resultLog
  executed,           \* this iteration reached step 3 (execute) with plan
  fx,                 \* effects performed in this iteration
  llmCalls,           \* chatOllama invocations of this iteration
  logsThisIter,       \* log files written by this iteration
  iterDispatched,     \* ids handed to executeProposal in this iteration
  dispatched,         \* id -> number of times handed to executeProposal
  unlinked,           \* id -> number of fs.unlinkSync calls on its file
  faults,             \* filesystem write failures injected so far
  threw,              \* the iteration ended in the catch of Agent.start
  readPaths,          \* history: the paths a spawned cat has read so far
  isRunning,          \* Agent.isRunning
  exitCode,           \* the exit code of the process, -1 while it runs
  stateFile,          \* outputs/state.yaml: what yaml.parse makes of it
  stateObj,           \* loop: let stateObj
  httpNow,            \* Date.now() as the HttpClient sees it
  requestCount,       \* HttpClient.requestCount
  lastRequestTime,    \* HttpClient.lastRequestTime
  inFlight,           \* HttpClient: calls suspended in await axios(config)
  issued,             \* history: the times at which axios(config) was called
  rejected,           \* history: the calls checkRateLimit has thrown on
  proposalDir,        \* proposals/ by file name: name -> [id, approved]
  scanned,            \* what a scan returned: [id, file], file = where it was read
  storeNow,           \* the clock Logger.logProposal reads
  hPc,                \* HTTP variant: where the dispatch of one proposal stands
  hProposal,          \* HTTP variant: the approved proposal being dispatched
  hResult,            \* HTTP variant: the result lines executeProposal returned
  hSent,              \* history: the methods of the requests this dispatch has sent
  hLog,               \* HTTP variant: the log entries this dispatch has written
  hStored,            \* HTTP variant: the file of the proposal is in proposals/
  hDispatches         \* history: the dispatches started so far

agentVars ==
  <<pc, iter, llmIter, boredom, logs, fsFiles, fsDirs, proposals, nextId, recentLogs,
    approvedProposals, responseRaw, plan, planErrors, resultLog, executed, fx,
    llmCalls, logsThisIter, iterDispatched, dispatched, unlinked, faults, threw,
    readPaths, isRunning, exitCode, stateFile, stateObj>>

httpVars == <<httpNow, requestCount, lastRequestTime, inFlight, issued, rejected>>

storeVars == <<proposalDir, scanned, storeNow>>

\* what Agent.loop of part_004 never touches
handlerVars == <<hPc, hProposal, hResult, hSent, hLog, hStored, hDispatches>>

sideVars == <<httpVars, storeVars, handlerVars>>

vars == <<agentVars, sideVars>>

Fx(kind, arg) == [kind |-> kind, arg |-> arg]

\* ----------------------------------------------------------------- Logger
\* LogEntry with the responseRaw member left out
LogEntryNoRaw(kind, text, result, raw) ==
  [action |-> [kind |-> kind, text |-> text], result |-> result, raw |-> 0]

\* an ActionLog file: the action text is tagged by the literal the code
\* uses ("plan" carries the plan's own action text)
LogEntry(kind, text, result, raw) ==
  [action |-> [kind |-> kind, text |-> text], result |-> result, raw |-> raw]

\* a log file that cannot be read or that yaml.parse rejects
Unparsable == LogEntry("unparsable", <<>>, <<>>, 0)

\* getRecentLogs without the try around the read of a file
getRecentLogsUnfiltered(allLogs, limit) ==
  LET n == IF Len(allLogs) < limit THEN Len(allLogs) ELSE limit IN
  [i \in 1..n |-> allLogs[Len(allLogs) + 1 - i]]

\* Logger.getRecentLogs(limit): the newest limit files, newest first; a
\* file whose read or parse throws is skipped by the catch in the for loop
getRecentLogs(allLogs, limit) ==
  LET n == IF Len(allLogs) < limit THEN Len(allLogs) ELSE limit IN
  SelectSeq([i \in 1..n |-> allLogs[Len(allLogs) + 1 - i]],
            LAMBDA file : file # Unparsable)

\* the record Logger.logProposal writes for a plan's proposal payload:
\* yaml.stringify of the whole payload, with timestamp and id added
storedProposal(p) ==
  [type |-> p.type, title |-> p.title, details |-> p.details, command |-> p.command,
   approved |-> (p.approved = "true"), approve |-> (p.approve = "true"),
   edited |-> FALSE]

\* a proposal file that cannot be read or that yaml.parse rejects (its
\* text may well hold the words approved: true)
UnparsableType == "unparsable"

\* getApprovedProposals that stops at the first approved record
getApprovedProposalsFirstOnly(store) ==
  LET ids == DOMAIN store
      top == IF ids = {} THEN 0 ELSE CHOOSE i \in ids : \A j \in ids : j <= i
      hits == SelectSeq([i \in 1..top |-> i],
                        LAMBDA i : /\ i \in ids
                                   /\ store[i].type # UnparsableType
                                   /\ store[i].approved = TRUE)
  IN  [k \in 1..(IF Len(hits) > 0 THEN 1 ELSE 0) |->
         [id |-> hits[k], type |-> store[hits[k]].type, title |-> store[hits[k]].title,
          details |-> store[hits[k]].details, command |-> store[hits[k]].command]]

\* getApprovedProposals without the test of the approved field
getApprovedProposalsUnfiltered(store) ==
  LET ids == DOMAIN store
      top == IF ids = {} THEN 0 ELSE CHOOSE i \in ids : \A j \in ids : j <= i
      hits == SelectSeq([i \in 1..top |-> i],
                        LAMBDA i : i \in ids /\ store[i].type # UnparsableType)
  IN  [k \in 1..Len(hits) |->
         [id |-> hits[k], type |-> store[hits[k]].type, title |-> store[hits[k]].title,
          details |-> store[hits[k]].details, command |-> store[hits[k]].command]]

\* getApprovedProposals that also takes the spelling approve: true
getApprovedProposalsAlias(store) ==
  LET ids == DOMAIN store
      top == IF ids = {} THEN 0 ELSE CHOOSE i \in ids : \A j \in ids : j <= i
      hits == SelectSeq([i \in 1..top |-> i],
                        LAMBDA i : /\ i \in ids
                                   /\ store[i].type # UnparsableType
                                   /\ (store[i].approved \/ store[i].approve))
  IN  [k \in 1..Len(hits) |->
         [id |-> hits[k], type |-> store[hits[k]].type, title |-> store[hits[k]].title,
          details |-> store[hits[k]].details, command |-> store[hits[k]].command]]

\* Logger.getApprovedProposals: the records with approved === true, in
\* directory order, each with the id taken from its file name; a file whose
\* read or parse throws is skipped by the catch in the for loop
getApprovedProposals(store) ==
  LET ids == DOMAIN store
      top == IF ids = {} THEN 0 ELSE CHOOSE i \in ids : \A j \in ids : j <= i
      hits == SelectSeq([i \in 1..top |-> i],
                        LAMBDA i : /\ i \in ids
                                   /\ store[i].type # UnparsableType
                                   /\ store[i].approved = TRUE)
  IN  [k \in 1..Len(hits) |->
         [id |-> hits[k], type |-> store[hits[k]].type, title |-> store[hits[k]].title,
          details |-> store[hits[k]].details, command |-> store[hits[k]].command]]

\* deleteProposal that leaves the file where it is
deleteProposalKeepsFile(store, id) == store

\* Logger.deleteProposal: fs.unlinkSync stands behind fs.existsSync, so a
\* file that is already gone makes it return without an exception
deleteThrows(store, id) == FALSE

\* Logger.deleteProposal: unlink when the file exists
deleteProposal(store, id) ==
  IF id \in DOMAIN store THEN [i \in DOMAIN store \ {id} |-> store[i]] ELSE store

\* ------------------------------------------------------- executeProposal
\* The result lines are named by tags; "otherTitle" and "otherDetails" are
\* the two lines of the OTHER case, which hold proposal.title and
\* proposal.details.
\* executeProposal whose default case pushes no line
executeProposalSilentDefault(p) ==
  CASE p.type = "SERVER_START" -> <<"serverStartUnimplemented">>
    [] p.type = "INSTALL_PACKAGE" -> <<"installDisabled">>
    [] p.type = "SELF_MODIFY" -> <<"selfModifyDisabled">>
    [] p.type = "SHELL_COMMAND" ->
         IF Truthy(p.command) THEN <<"shellCommandAllow", "manualOnly">> ELSE <<>>
    [] p.type = "OTHER" -> <<"otherTitle", "otherDetails">>
    [] OTHER -> <<>>

executeProposal(p) ==
  CASE p.type = "SERVER_START" -> <<"serverStartUnimplemented">>
    [] p.type = "INSTALL_PACKAGE" -> <<"installDisabled">>
    [] p.type = "SELF_MODIFY" -> <<"selfModifyDisabled">>
    [] p.type = "SHELL_COMMAND" ->
         IF Truthy(p.command) THEN <<"shellCommandAllow", "manualOnly">> ELSE <<>>
    [] p.type = "OTHER" -> <<"otherTitle", "otherDetails">>
    [] OTHER -> <<"unknownType">>

\* ------------------------------------------------ the continuity state
\* state.yaml as yaml.parse sees it.  tag: "missing" (no file),
\* "unparsable" (readFileSync or yaml.parse throws), "scalar" (a document
\* that is no object), "object"; "null" is the value of stateObj when
\* nothing was read.  The keys lastAction, lastResult, next and updatedAt
\* are written and never read back by the code; they are left out.
StateValue(tag, goal, milestones, progress, nextFocus, blockers, history) ==
  [tag |-> tag, goal |-> goal, milestones |-> milestones, progress |-> progress,
   nextFocus |-> nextFocus, blockers |-> blockers, history |-> history]

EmptyState(tag) == StateValue(tag, Absent, Absent, Absent, Absent, Absent, <<>>)

\* let stateObj: any = null
NullState == EmptyState("null")

\* the read of state.yaml at the top of loop(): existsSync, readFileSync
\* and yaml.parse inside one try whose catch leaves stateObj null
readState(file) ==
  IF file.tag \in {"missing", "unparsable"} THEN NullState ELSE file

\* the length history is cut to
HistoryCap == 20

\* a cut that keeps the oldest entries
capHistoryKeepsOldest(history) ==
  IF Len(history) > HistoryCap THEN SubSeq(history, 1, HistoryCap) ELSE history

\* if (history.length > 20) history.splice(0, history.length - 20)
capHistory(history) ==
  IF Len(history) > HistoryCap
  THEN SubSeq(history, Len(history) - HistoryCap + 1, Len(history))
  ELSE history

\* new Date().toISOString() in iteration n; the entries a state file holds
\* at the start carry earlier times
StateEpoch == 100

timestampOf(n) == StateEpoch + n

\* a || b
orElse(a, b) == IF Truthy(a) THEN a ELSE b

\* a merge that takes the patch or the default
pickPatchOrDefault(planned, previous, default) == orElse(planned, default)

\* plannedState.x || existing.x || default
pick(planned, previous, default) == orElse(planned, orElse(previous, default))

\* does a text (or an element of an array) hold the filtered term
hasTerm(v) ==
  \/ v.tag = "str" /\ includes(v.s, boredomTerm)
  \/ v.tag = "list" /\ \E k \in 1..Len(v.s) : v.s[k] = boredomTerm

\* sanitizeGoalText throws on a truthy value without an includes method
sanitizeThrows(text) == text.tag = "num"

\* sanitizeGoalText: '' for a falsy text and for a text with the term
sanitizeGoalText(text) ==
  IF ~Truthy(text) THEN Str(<<>>)
  ELSE IF hasTerm(text) THEN Str(<<>>)
  ELSE text

\* a || b || c over sanitizeGoalText, evaluated left to right: does one of
\* the calls that are made throw
sanitizedChainThrows(texts) ==
  \E k \in 1..Len(texts) :
     /\ sanitizeThrows(texts[k])
     /\ \A j \in 1..(k - 1) : ~Truthy(sanitizeGoalText(texts[j]))

RECURSIVE sanitizedChain(_)
sanitizedChain(texts) ==
  IF texts = <<>> THEN Str(<<>>)
  ELSE orElse(sanitizeGoalText(Head(texts)), sanitizedChain(Tail(texts)))

\* the try block that follows the log entry of an executed plan: the new
\* content of state.yaml, or threw = TRUE when the block throws before the
\* write (obj is stateObj, n the iteration)
nextState(obj, p, result, n) ==
  LET existing == IF obj.tag = "object" THEN obj ELSE EmptyState("object")
      history == capHistory(Append(existing.history,
                                   [timestamp |-> timestampOf(n), action |-> p.action.s,
                                    result |-> result]))
      plannedState == IF p.state.present THEN p.state ELSE NoPatch
      goalTexts == <<plannedState.goal, existing.goal, p.intent>>
      focusTexts == <<plannedState.nextFocus, existing.nextFocus>>
  IN  IF sanitizedChainThrows(goalTexts) \/ sanitizedChainThrows(focusTexts)
      THEN [threw |-> TRUE, state |-> obj]
      ELSE [threw |-> FALSE,
            state |-> StateValue("object",
                        sanitizedChain(goalTexts),
                        pick(plannedState.milestones, existing.milestones, List(<<>>)),
                        pick(plannedState.progress, existing.progress, Str(<<>>)),
                        sanitizedChain(focusTexts),
                        pick(plannedState.blockers, existing.blockers, List(<<>>)),
                        history)]

\* ------------------------------------------ Logger: the files of proposals/
\* the extension of a proposal file
dotYaml == <<".", "y", "a", "m", "l">>

\* the position of the first occurrence of pat in s, 0 when there is none
indexOf(s, pat) ==
  LET hits == {i \in 1..(Len(s) - Len(pat) + 1) : SubSeq(s, i, i + Len(pat) - 1) = pat}
  IN  IF hits = {} THEN 0 ELSE CHOOSE i \in hits : \A j \in hits : i <= j

\* String.prototype.replace with a string pattern: the first occurrence only
replaceFirst(s, pat, by) ==
  LET i == indexOf(s, pat) IN
  IF i = 0 THEN s
  ELSE SubSeq(s, 1, i - 1) \o by \o SubSeq(s, i + Len(pat), Len(s))

\* String.prototype.replace with /c/g
replaceAll(s, c, d) == [i \in 1..Len(s) |-> IF s[i] = c THEN d ELSE s[i]]

\* String.prototype.endsWith
endsWith(s, suffix) ==
  Len(s) >= Len(suffix) /\ SubSeq(s, Len(s) - Len(suffix) + 1, Len(s)) = suffix

\* toJST(now): date, blank, time with colons, dot, milliseconds (the date is
\* "D", hours and minutes "h" and "m", the clock value n is the millisecond)
toJST(n) == <<"D", " ", "h", ":", "m", ":", "s", ".", <<"0", "1", "2", "3", "4", "5">>[n + 1]>>

\* the file name Logger.logProposal builds from the timestamp and the type
proposalFilename(timestampJST, type) ==
  replaceFirst(replaceAll(replaceAll(timestampJST, ":", "-"), " ", "_"), <<".">>, <<"-">>)
    \o <<"_">> \o type \o dotYaml

\* filename.replace('.yaml', ''), in logProposal and in the scan
proposalIdOf(filename) == replaceFirst(filename, dotYaml, <<>>)

\* the path deleteProposal builds from an id
proposalPath(proposalId) == proposalId \o dotYaml

\* the values of proposal.type the validator lets through (any truthy
\* value): a type of the Proposal interface, and free text
StoreTypes ==
  { <<"O", "T", "H", "E", "R">>,
    <<"a", ".", "y", "a", "m", "l">>,
    <<"a", ".", "y", "a", "m", "l", "s">> }

\* proposals/ is empty and nothing has been scanned
StoreInit ==
  /\ proposalDir = <<>>
  /\ scanned = {}
  /\ storeNow = 0

\* ------------------------------- executeProposal with the HTTP handler
\* the url and the method of an approved HTTP_REQUEST proposal (both are
\* optional members of Proposal; "" stands for a missing method)
HttpMethods == {"", "POST", "PUT", "DELETE", "PATCH"}

HttpProposals == {[url |-> u, method |-> m] : u \in {Absent, Str(<<"u">>)}, m \in HttpMethods}

NoHttpProposal == [url |-> Absent, method |-> ""]

\* a handler that knows POST only
clientMethodPostOnly(method) == IF method = "POST" THEN "POST" ELSE "GET"

\* the if / else-if chain over proposal.method: post, put, delete, else get
clientMethod(method) == IF method \in {"POST", "PUT", "DELETE"} THEN method ELSE "GET"

\* the file the handler saves the response to
httpOut == outputsDir \o <<"/", "h">>

\* no proposal has been dispatched
HandlerInit ==
  /\ hPc = "idle"
  /\ hProposal = NoHttpProposal
  /\ hResult = <<>>
  /\ hSent = <<>>
  /\ hLog = <<>>
  /\ hStored = FALSE
  /\ hDispatches = 0

\* ------------------------------------------------------------ HttpClient
\* private readonly MAX_REQUESTS_PER_MINUTE = 10
MAX_REQUESTS_PER_MINUTE == 10

\* const oneMinute = 60 * 1000
oneMinute == 60 * 1000

\* the milliseconds the clock advances in one step of the model
ClockStep == 40000

\* a new HttpClient(): both fields are 0; Date.now() is far more than a
\* minute after the epoch
HttpInit ==
  /\ httpNow = oneMinute + ClockStep
  /\ requestCount = 0
  /\ lastRequestTime = 0
  /\ inFlight = 0
  /\ issued = <<>>
  /\ rejected = 0

\* ------------------------------------------------------------------- Init
Init ==
  /\ pc = "top"
  /\ iter = 0
  /\ llmIter = 0
  /\ boredom = 0
  /\ logs = <<>>
  /\ fsFiles = (pathResolve(Cwd, pA) :> <<"o">>)
  /\ fsDirs = {<<"/">>, Cwd, outputsDir}
  /\ proposals = (1 :> storedProposal(GoodProposal))
  /\ nextId = 2
  /\ recentLogs = <<>>
  /\ approvedProposals = <<>>
  /\ responseRaw = 0
  /\ plan = NoPlan
  /\ planErrors = <<>>
  /\ resultLog = <<>>
  /\ executed = FALSE
  /\ fx = {}
  /\ llmCalls = 0
  /\ logsThisIter = 0
  /\ iterDispatched = {}
  /\ dispatched = [i \in 1..MaxProposals |-> 0]
  /\ unlinked = [i \in 1..MaxProposals |-> 0]
  /\ faults = 0
  /\ threw = FALSE
  /\ readPaths = {}
  /\ isRunning = TRUE
  /\ exitCode = -1
  /\ stateFile = EmptyState("missing")
  /\ stateObj = NullState
  /\ HttpInit
  /\ StoreInit
  /\ HandlerInit

\* ---------------------------------------------------- step 3: the executor
\* the ancestors of a directory that mkdirSync(dir, {recursive}) creates
ancestors(dir) ==
  LET segs == normalizeSegments(split(dir, "/"), <<>>) IN
  {joinSegments(SubSeq(segs, 1, k)) : k \in 1..Len(segs)}

\* the safety check on plan.target: the resolved path, or '' when the
\* target is missing or is not accepted as lying under outputs/
safeTargetOf(target) ==
  IF Truthy(target) /\ IsString(target)
  THEN LET resolvedTarget == pathResolve(Cwd, target.s) IN
       IF startsWith(resolvedTarget, outputsDir) THEN resolvedTarget ELSE <<>>
  ELSE <<>>

\* the redirect / pipe check of the SHELL branch
hasRedirect(rawCommand) == includes(rawCommand, <<">">>) \/ includes(rawCommand, <<"|">>)

\* shellRuns with the pipe check forgotten
shellRunsPipeUnchecked(p) ==
  /\ firstToken(rawCommandOf(p)) \in allowedShellCommands
  /\ ~includes(IF Truthy(rawCommandOf(p)) THEN rawCommandOf(p).s ELSE <<>>, <<">">>)

\* the SHELL branch decides to call execAsync
shellRuns(p) ==
  /\ firstToken(rawCommandOf(p)) \in allowedShellCommands
  /\ ~hasRedirect(IF Truthy(rawCommandOf(p)) THEN rawCommandOf(p).s ELSE <<>>)

\* the file the curl branch saves the response body to
curlOut == outputsDir \o <<"/", "c">>

NoEffect(result) ==
  [resultLog |-> result, fsFiles |-> fsFiles, fsDirs |-> fsDirs,
   proposals |-> proposals, nextId |-> nextId, fx |-> {}, stateFile |-> stateFile]

\* SHELL branch; shellOk = FALSE: execAsync rejects
shellBranch(p, shellOk) ==
  LET rawCommand == rawCommandOf(p)
      text == IF Truthy(rawCommand) THEN rawCommand.s ELSE <<>>
      cmd == firstToken(rawCommand)
  IN  IF cmd \notin allowedShellCommands THEN NoEffect(<<"notAllowed">>)
      ELSE IF ~shellRuns(p) THEN NoEffect(<<"redirectForbidden">>)
      ELSE IF ~shellOk
           THEN [NoEffect(<<"commandFailed">>) EXCEPT !.fx = {Fx("spawn", text)}]
      ELSE IF cmd = <<"c", "u", "r", "l">>
           THEN [NoEffect(<<"curlSaved", "output">>) EXCEPT
                   !.fx = {Fx("spawn", text), Fx("write", curlOut)},
                   !.fsFiles = (curlOut :> <<"r">>) @@ fsFiles]
      ELSE [NoEffect(<<"output">>) EXCEPT !.fx = {Fx("spawn", text)}]

\* a FILE_WRITE branch whose append mode truncates the file
fileWriteBranchTruncates(p) ==
  LET safeTarget == safeTargetOf(p.target) IN
  IF safeTarget = <<>> THEN NoEffect(<<"blocked">>)
  ELSE
    LET dir == pathDirname(safeTarget)
        mk == ~existsSync(fsFiles, fsDirs, dir)
        mkFails == \E a \in ancestors(dir) : a \in DOMAIN fsFiles
        dirs1 == IF mk /\ ~mkFails THEN fsDirs \cup ancestors(dir) ELSE fsDirs
        fx1 == IF mk /\ ~mkFails THEN {Fx("mkdir", dir)} ELSE {}
        old == IF safeTarget \in DOMAIN fsFiles THEN fsFiles[safeTarget] ELSE <<>>
        writeFails == \/ mkFails
                      \/ ~IsString(p.content)
                      \/ safeTarget \in dirs1
                      \/ dir \in DOMAIN fsFiles
    IN  IF writeFails
        THEN [NoEffect(<<"writeFailed">>) EXCEPT !.fsDirs = dirs1, !.fx = fx1]
        ELSE IF p.appendMode = TRUE
        THEN [NoEffect(<<"appended">>) EXCEPT
                !.fsDirs = dirs1,
                !.fx = fx1 \cup {Fx("append", safeTarget)},
                !.fsFiles = (safeTarget :> p.content.s) @@ fsFiles]
        ELSE [NoEffect(<<"overwritten">>) EXCEPT
                !.fsDirs = dirs1,
                !.fx = fx1 \cup {Fx("write", safeTarget)},
                !.fsFiles = (safeTarget :> p.content.s) @@ fsFiles]

\* FILE_WRITE branch
fileWriteBranch(p) ==
  LET safeTarget == safeTargetOf(p.target) IN
  IF safeTarget = <<>> THEN NoEffect(<<"blocked">>)
  ELSE
    LET dir == pathDirname(safeTarget)
        mk == ~existsSync(fsFiles, fsDirs, dir)
        mkFails == \E a \in ancestors(dir) : a \in DOMAIN fsFiles
        dirs1 == IF mk /\ ~mkFails THEN fsDirs \cup ancestors(dir) ELSE fsDirs
        fx1 == IF mk /\ ~mkFails THEN {Fx("mkdir", dir)} ELSE {}
        old == IF safeTarget \in DOMAIN fsFiles THEN fsFiles[safeTarget] ELSE <<>>
        writeFails == \/ mkFails
                      \/ ~IsString(p.content)
                      \/ safeTarget \in dirs1
                      \/ dir \in DOMAIN fsFiles
    IN  IF writeFails
        THEN [NoEffect(<<"writeFailed">>) EXCEPT !.fsDirs = dirs1, !.fx = fx1]
        ELSE IF p.appendMode = TRUE
        THEN [NoEffect(<<"appended">>) EXCEPT
                !.fsDirs = dirs1,
                !.fx = fx1 \cup {Fx("append", safeTarget)},
                !.fsFiles = (safeTarget :> (old \o p.content.s)) @@ fsFiles]
        ELSE [NoEffect(<<"overwritten">>) EXCEPT
                !.fsDirs = dirs1,
                !.fx = fx1 \cup {Fx("write", safeTarget)},
                !.fsFiles = (safeTarget :> p.content.s) @@ fsFiles]

\* a PROPOSAL branch that also leaves a note about the proposal in outputs/
proposalBranchWithNote(p) ==
  IF ~p.proposal.present THEN NoEffect(<<"noProposalData">>)
  ELSE [NoEffect(<<"proposalCreated", "proposalSaved">>) EXCEPT
          !.proposals = (nextId :> storedProposal(p.proposal)) @@ proposals,
          !.nextId = nextId + 1,
          !.fsFiles = (pathResolve(Cwd, pA) :> <<"p">>) @@ fsFiles,
          !.fx = {Fx("proposal", <<>>), Fx("write", pathResolve(Cwd, pA))}]

\* PROPOSAL branch: Logger.logProposal
proposalBranch(p) ==
  IF ~p.proposal.present THEN NoEffect(<<"noProposalData">>)
  ELSE [NoEffect(<<"proposalCreated", "proposalSaved">>) EXCEPT
          !.proposals = (nextId :> storedProposal(p.proposal)) @@ proposals,
          !.nextId = nextId + 1,
          !.fx = {Fx("proposal", <<>>)}]

\* the paths that the execution ex has read with a cat that ran and succeeded
readsOf(ex) ==
  IF ex.resultLog # <<"output">> THEN {}
  ELSE {pathResolve(Cwd, split(e.arg, " ")[2]) :
          e \in {f \in ex.fx : /\ f.kind = "spawn"
                                /\ Len(split(f.arg, " ")) = 2
                                /\ Head(split(f.arg, " ")) = <<"c", "a", "t">>}}

\* the update of the continuity state that follows the log entry of an
\* executed plan: state.yaml is rewritten unless the block has thrown.  In
\* fsFiles the file stands with a placeholder; its content is stateFile.
updateState(ex, p) ==
  LET u == nextState(stateObj, p, ex.resultLog, iter) IN
  IF u.threw THEN ex
  ELSE [ex EXCEPT !.fsFiles = (statePath :> <<"y">>) @@ ex.fsFiles,
                  !.fx = ex.fx \cup {Fx("state", statePath)},
                  !.stateFile = u.state]

\* the if / else-if chain of step 3
executePlan(p, shellOk) ==
  IF p.type \notin allowedTypes THEN NoEffect(<<"unsupportedType", "notExecuted">>)
  ELSE IF p.type = "SHELL" THEN shellBranch(p, shellOk)
  ELSE IF p.type = "FILE_WRITE" THEN fileWriteBranch(p)
  ELSE proposalBranch(p)

\* ------------------------------------------------- the boredom heuristic
hasBody(raw) == \E i \in 1..Len(raw.toks) : raw.toks[i] = "BODY"

\* extractField(raw, 'type'): the first "type" : "..." of the raw text
extractType(rawIdx) ==
  IF rawIdx = 0 \/ ~hasBody(Responses[rawIdx]) THEN ""
  ELSE LET b == Responses[rawIdx].body IN
       IF b.type # "" THEN b.type
       ELSE IF b.proposal.present THEN b.proposal.type ELSE ""

\* extractField(raw, 'target')
extractTarget(rawIdx) ==
  IF rawIdx = 0 \/ ~hasBody(Responses[rawIdx]) THEN <<>>
  ELSE LET b == Responses[rawIdx].body IN
       IF IsString(b.target) THEN b.target.s ELSE <<>>

\* the action member of an entry is the empty string
emptyAction(entry) == entry.action.kind = "plan" /\ entry.action.text = <<>>

\* boredomIncrement without the rule on consecutive writes to one target
boredomIncrementRepeatOnly(recent) ==
  IF Len(recent) < 2 THEN 0
  ELSE IF recent[1].action = recent[2].action /\ ~emptyAction(recent[1]) THEN 3 ELSE 0

\* the amount the heuristic at the top of loop() adds to boredom
boredomIncrement(recent) ==
  IF Len(recent) < 2 THEN 0
  ELSE LET lastLog == recent[1]
           prevLog == recent[2]
       IN  (IF lastLog.action = prevLog.action /\ ~emptyAction(lastLog) THEN 3 ELSE 0)
           + (IF /\ extractType(lastLog.raw) = "FILE_WRITE"
                 /\ extractType(prevLog.raw) = "FILE_WRITE"
                 /\ extractTarget(lastLog.raw) # <<>>
                 /\ extractTarget(lastLog.raw) = extractTarget(prevLog.raw)
              THEN 5 ELSE 0)

\* the plans carried by the responseRaw of the recent logs
recentRawsOf(recent) ==
  {Responses[recent[i].raw].body :
     i \in {j \in 1..Len(recent) : recent[j].raw # 0 /\ hasBody(Responses[recent[j].raw])}}

\* ------------------------------------------------------------ Agent.loop
\* passesGate that also asks for a low boredom value
passesGateWhenCalm(errors) == Len(errors) = 0 /\ boredom < 2

\* passesGate with the violation list ignored
passesGateAlways(errors) == TRUE

\* the gate between validation and step 3: the plan is executed
passesGate(errors) == Len(errors) = 0

\* nextStage without the return after the dispatch loop
nextStageNoReturn(stage, outcome) ==
  CASE stage = "dispatch" -> "llmInitial"
    [] stage = "llmInitial" /\ outcome = "parseFailed" -> "llmParseRepair"
    [] stage \in {"llmInitial", "llmParseRepair"} /\ outcome = "invalid" -> "llmValidationRepair"
    [] OTHER -> "sleep"

\* nextStage with a validation repair that is repeated while violations remain
nextStageRepairAgain(stage, outcome) ==
  CASE stage = "dispatch" -> "sleep"
    [] stage = "llmInitial" /\ outcome = "parseFailed" -> "llmParseRepair"
    [] outcome = "invalid" -> "llmValidationRepair"
    [] OTHER -> "sleep"

\* Where loop() goes after a stage: the return that follows the dispatch
\* loop, and the try / catch structure around parsing and validation.
\* "sleep" is the end of the iteration.
nextStage(stage, outcome) ==
  CASE stage = "dispatch" -> "sleep"
    [] stage = "llmInitial" /\ outcome = "parseFailed" -> "llmParseRepair"
    [] stage \in {"llmInitial", "llmParseRepair"} /\ outcome = "invalid" -> "llmValidationRepair"
    [] OTHER -> "sleep"

LlmStages == {"llmInitial", "llmParseRepair", "llmValidationRepair"}

\* the scan found approved proposals: the iteration only dispatches them
scanPreempts(approved) == Len(approved) > 0

\* top of loop(): observation, boredom heuristic, scan of proposals/
LoopTop ==
  /\ UNCHANGED sideVars
  /\ stateObj' = readState(stateFile)
  /\ UNCHANGED stateFile
  /\ pc = "top"
  /\ isRunning
  /\ iter < MaxIter
  /\ LET recent == getRecentLogs(logs, 5)
         approved == getApprovedProposals(proposals)
     IN  /\ recentLogs' = recent
         /\ boredom' = boredom + boredomIncrement(recent)
         /\ approvedProposals' = approved
         /\ IF scanPreempts(approved)
            THEN pc' = "dispatch" /\ llmCalls' = 0
            ELSE pc' = "llmInitial" /\ llmCalls' = 1
  /\ iter' = iter + 1
  /\ UNCHANGED <<llmIter, responseRaw, plan, planErrors, resultLog, executed, fx, logsThisIter,
                 iterDispatched, threw>>
  /\ UNCHANGED <<logs, fsFiles, fsDirs, proposals, nextId, dispatched, unlinked, faults,
                 readPaths, isRunning, exitCode>>

\* the outcomes of the two log writes of one pass of the dispatch loop
DispatchOutcomes ==
  {"logged"}
  \cup (IF faults < MaxFaults THEN {"firstLogFailed"} ELSE {})
  \cup (IF faults + 1 < MaxFaults THEN {"bothLogsFailed"} ELSE {})

\* one pass of the for loop over approvedProposals
DispatchPass(removedMidway) ==
  /\ UNCHANGED sideVars
  /\ UNCHANGED <<stateFile, stateObj>>
  /\ pc = "dispatch"
  /\ approvedProposals # <<>>
  /\ \E outcome \in DispatchOutcomes :
       LET proposal == Head(approvedProposals)
           executionResult == executeProposal(proposal)
           rest == Tail(approvedProposals)
           unlinkThrows == removedMidway \/ deleteThrows(proposals, proposal.id)
       IN  /\ dispatched' = [dispatched EXCEPT ![proposal.id] = @ + 1]
           /\ iterDispatched' = iterDispatched \cup {proposal.id}
           /\ resultLog' = executionResult
           /\ CASE outcome = "logged" /\ ~unlinkThrows ->
                     /\ logs' = Append(logs, LogEntry("executeProposal", <<proposal.type>>,
                                                      executionResult, 0))
                     /\ logsThisIter' = logsThisIter + 1
                     /\ proposals' = deleteProposal(proposals, proposal.id)
                     /\ unlinked' = [unlinked EXCEPT ![proposal.id] =
                                       @ + (IF proposal.id \in DOMAIN proposals THEN 1 ELSE 0)]
                     /\ fx' = fx \cup (IF proposal.id \in DOMAIN proposals
                                       THEN {Fx("delete", <<>>)} ELSE {})
                     /\ approvedProposals' = rest
                     /\ UNCHANGED <<faults, threw>>
                [] outcome = "logged" /\ unlinkThrows ->
                     \* fs.unlinkSync throws ENOENT into the catch, which logs
                     /\ logs' = logs \o << LogEntry("executeProposal", <<proposal.type>>,
                                                     executionResult, 0),
                                            LogEntry("executeProposal", <<proposal.type>>,
                                                     <<"error">>, 0) >>
                     /\ logsThisIter' = logsThisIter + 2
                     /\ proposals' = IF removedMidway
                                     THEN [i \in DOMAIN proposals \ {proposal.id} |-> proposals[i]]
                                     ELSE proposals
                     /\ approvedProposals' = rest
                     /\ UNCHANGED <<unlinked, fx, faults, threw>>
                [] outcome = "firstLogFailed" ->
                     /\ logs' = Append(logs, LogEntry("executeProposal", <<proposal.type>>,
                                                      <<"error">>, 0))
                     /\ logsThisIter' = logsThisIter + 1
                     /\ faults' = faults + 1
                     /\ approvedProposals' = rest
                     /\ UNCHANGED <<proposals, unlinked, fx, threw>>
                [] outcome = "bothLogsFailed" ->
                     /\ faults' = faults + 2
                     /\ threw' = TRUE
                     /\ approvedProposals' = <<>>
                     /\ UNCHANGED <<logs, logsThisIter, proposals, unlinked, fx>>
  /\ pc' = IF approvedProposals' # <<>> THEN "dispatch"
           ELSE IF threw' THEN "sleep" ELSE nextStage("dispatch", "done")
  /\ llmCalls' = IF pc' \in LlmStages THEN llmCalls + 1 ELSE llmCalls
  /\ UNCHANGED <<iter, llmIter, boredom, fsFiles, fsDirs, nextId, recentLogs, responseRaw, plan,
                 planErrors, executed, readPaths, isRunning, exitCode>>

\* one pass of the for loop over approvedProposals
Dispatch ==
  /\ pc = "dispatch"
  /\ DispatchPass(FALSE)

\* one pass of the for loop during which the file of the proposal is removed
\* from outside after fs.existsSync has seen it and before fs.unlinkSync
DispatchRaced ==
  /\ approvedProposals # <<>>
  /\ Head(approvedProposals).id \in DOMAIN proposals
  /\ DispatchPass(TRUE)

\* the end of an iteration: what it leaves in the world and in the logs
Settle(ex, entries, b, t, f) ==
  /\ pc' = "sleep"
  /\ logs' = logs \o entries
  /\ logsThisIter' = logsThisIter + Len(entries)
  /\ boredom' = b
  /\ threw' = t
  /\ faults' = faults + f
  /\ resultLog' = ex.resultLog
  /\ fsFiles' = ex.fsFiles
  /\ fsDirs' = ex.fsDirs
  /\ stateFile' = ex.stateFile
  /\ proposals' = ex.proposals
  /\ nextId' = ex.nextId
  /\ fx' = fx \cup ex.fx
  /\ readPaths' = readPaths \cup readsOf(ex)
  /\ UNCHANGED <<iter, recentLogs, approvedProposals, iterDispatched, dispatched, unlinked>>

\* one Logger.log call: does fs.writeFileSync throw?
LogThrows == IF faults < MaxFaults THEN BOOLEAN ELSE {FALSE}

\* steps 3 and 4 for a plan that passed the gate: safeTarget, execute, log
RunPlan(p, errors, raw) ==
  /\ plan' = p
  /\ planErrors' = errors
  /\ UNCHANGED llmCalls
  /\ IF Truthy(p.target) /\ ~IsString(p.target)
     THEN \* path.resolve throws outside any try
          /\ executed' = FALSE
          /\ Settle(NoEffect(<<>>), <<>>, boredom, TRUE, 0)
     ELSE IF p.type = "SHELL" /\ shellRuns(p)
     THEN \* await execAsync(rawCommand): loop() is suspended while the command runs
          /\ executed' = TRUE
          /\ pc' = "shell"
          /\ fx' = fx \cup {Fx("spawn", rawCommandOf(p).s)}
          /\ UNCHANGED <<iter, boredom, logs, fsFiles, fsDirs, stateFile, proposals, nextId, recentLogs,
                         approvedProposals, resultLog, logsThisIter, iterDispatched,
                         dispatched, unlinked, faults, threw, readPaths>>
     ELSE /\ executed' = TRUE
          /\ (p.type = "PROPOSAL" /\ p.proposal.present) => nextId <= MaxProposals
          /\ \E logThrows \in LogThrows :
               LET ex == executePlan(p, TRUE) IN
               IF ~logThrows
               THEN Settle(updateState(ex, p),
                           <<LogEntry("plan", p.action.s, ex.resultLog, raw)>>, 0, FALSE, 0)
               ELSE Settle(ex, <<>>, boredom, TRUE, 1)

\* execAsync has settled (shellOk = FALSE: it rejected): the rest of the
\* SHELL branch, then the log entry
ShellDone ==
  /\ UNCHANGED sideVars
  /\ UNCHANGED stateObj
  /\ pc = "shell"
  /\ \E shellOk \in BOOLEAN, logThrows \in LogThrows :
       LET ex == executePlan(plan, shellOk) IN
       IF ~logThrows
       THEN Settle(updateState(ex, plan),
                   <<LogEntry("plan", plan.action.s, ex.resultLog, responseRaw)>>,
                   0, FALSE, 0)
       ELSE Settle(ex, <<>>, boredom, TRUE, 1)
  /\ UNCHANGED <<llmIter, responseRaw, plan, planErrors, executed, llmCalls, isRunning,
                 exitCode>>

\* the stage ended without a plan to execute: either another request goes
\* to the language model, or the error entry is logged, boredom grows by 2
\* and the iteration ends
NoPlanToRun(stage, outcome, raw) ==
  /\ executed' = FALSE
  /\ IF nextStage(stage, outcome) \in LlmStages
     THEN /\ pc' = nextStage(stage, outcome)
          /\ llmCalls' = llmCalls + 1
          /\ UNCHANGED <<iter, boredom, logs, fsFiles, fsDirs, stateFile, proposals, nextId,
                         recentLogs, approvedProposals, resultLog, fx, logsThisIter,
                         iterDispatched, dispatched, unlinked, faults, threw, readPaths>>
     ELSE /\ UNCHANGED llmCalls
          /\ \E logThrows \in LogThrows :
               IF ~logThrows
               THEN Settle(NoEffect(<<>>),
                           <<LogEntry(IF outcome = "parseFailed" /\ stage # "llmValidationRepair"
                                      THEN "parseFailed" ELSE "repairFailed",
                                      <<>>,
                                      IF outcome = "parseFailed" /\ stage # "llmValidationRepair"
                                      THEN <<"error", "rawResponse">> ELSE <<"error">>,
                                      raw)>>,
                           boredom + 2, FALSE, 0)
               ELSE Settle(NoEffect(<<>>), <<>>, boredom, TRUE, 1)

\* a reply of the language model is parsed and validated
HandleReply(stage, r, raw) ==
  LET parsed == parsePlan(Responses[r]) IN
  IF ~parsed.ok
  THEN UNCHANGED <<plan, planErrors>> /\ NoPlanToRun(stage, "parseFailed", raw)
  ELSE IF validateThrows(parsed.plan)
  THEN /\ plan' = parsed.plan
       /\ UNCHANGED planErrors
       /\ IF stage = "llmValidationRepair"
          THEN \* the TypeError is caught by the try around the repair
               NoPlanToRun(stage, "threw", raw)
          ELSE \* the first validatePlan call stands outside any try
               /\ executed' = FALSE
               /\ UNCHANGED llmCalls
               /\ Settle(NoEffect(<<>>), <<>>, boredom, TRUE, 0)
  ELSE LET errors == validatePlan(parsed.plan, recentRawsOf(recentLogs), fsFiles, fsDirs) IN
       IF passesGate(errors)
       THEN RunPlan(parsed.plan, errors, raw)
       ELSE /\ plan' = parsed.plan
            /\ planErrors' = errors
            /\ NoPlanToRun(stage, "invalid", raw)

\* the reply to the initial chatOllama call arrives
LlmInitialReply ==
  /\ UNCHANGED sideVars
  /\ UNCHANGED stateObj
  /\ pc = "llmInitial"
  /\ llmIter < MaxLlmIter
  /\ llmIter' = llmIter + 1
  /\ UNCHANGED <<isRunning, exitCode>>
  /\ \E r \in PlainResponses :
       /\ responseRaw' = r
       /\ HandleReply("llmInitial", r, r)

\* the reply to the parse-repair call arrives
LlmParseRepairReply ==
  /\ UNCHANGED sideVars
  /\ UNCHANGED stateObj
  /\ pc = "llmParseRepair"
  /\ UNCHANGED <<responseRaw, llmIter, isRunning, exitCode>>
  /\ \E r \in RepairResponses : HandleReply("llmParseRepair", r, responseRaw)

\* the reply to the validation-repair call arrives
LlmValidationRepairReply ==
  /\ UNCHANGED sideVars
  /\ UNCHANGED stateObj
  /\ pc = "llmValidationRepair"
  /\ UNCHANGED <<responseRaw, llmIter, isRunning, exitCode>>
  /\ \E r \in RepairResponses : HandleReply("llmValidationRepair", r, responseRaw)

\* the while body ends at the first exception of loop()
loopContinuesUnlessThrown(t) == ~t

\* try { await this.loop() } catch (error) { console.error(...) }: whether
\* loop() returned or threw (t), the while body goes on to the sleep
loopContinues(t) == TRUE

\* loop() has returned (or thrown into the catch of start()) and the sleep
\* at the end of the while body is over: the locals of loop() are gone
Sleep ==
  /\ UNCHANGED sideVars
  /\ stateObj' = NullState
  /\ UNCHANGED stateFile
  /\ pc = "sleep"
  /\ loopContinues(threw)
  /\ pc' = "top"
  /\ recentLogs' = <<>>
  /\ approvedProposals' = <<>>
  /\ responseRaw' = 0
  /\ plan' = NoPlan
  /\ planErrors' = <<>>
  /\ resultLog' = <<>>
  /\ executed' = FALSE
  /\ fx' = {}
  /\ llmCalls' = 0
  /\ logsThisIter' = 0
  /\ iterDispatched' = {}
  /\ threw' = FALSE
  /\ UNCHANGED <<iter, llmIter, boredom, logs, fsFiles, fsDirs, proposals, nextId,
                 dispatched, unlinked, faults, readPaths, isRunning, exitCode>>

\* the out-of-band edit of a stored proposal: approved: true is added.  The
\* agent reads the store only in the scan at the top of loop(), so an edit
\* made during an iteration is seen exactly as one made before the next scan.
ExternalApprove ==
  /\ UNCHANGED sideVars
  /\ UNCHANGED <<stateFile, stateObj>>
  /\ pc = "top"
  /\ \E id \in DOMAIN proposals :
       /\ ~proposals[id].approved
       /\ proposals' = [proposals EXCEPT ![id].approved = TRUE, ![id].edited = TRUE]
  /\ UNCHANGED <<pc, iter, llmIter, boredom, logs, fsFiles, fsDirs, nextId, recentLogs,
                 approvedProposals, responseRaw, plan, planErrors, resultLog, executed, fx,
                 llmCalls, logsThisIter, iterDispatched, dispatched, unlinked, faults, threw,
                 readPaths, isRunning, exitCode>>

\* out-of-band cleanup: the file of a proposal that the scan has returned is
\* removed before the for loop gets to it
ExternalRemove ==
  /\ UNCHANGED sideVars
  /\ UNCHANGED <<stateFile, stateObj>>
  /\ pc = "dispatch"
  /\ \E k \in 1..Len(approvedProposals) :
       /\ approvedProposals[k].id \in DOMAIN proposals
       /\ proposals' = [i \in DOMAIN proposals \ {approvedProposals[k].id} |-> proposals[i]]
  /\ UNCHANGED <<pc, iter, llmIter, boredom, logs, fsFiles, fsDirs, nextId, recentLogs,
                 approvedProposals, responseRaw, plan, planErrors, resultLog, executed, fx,
                 llmCalls, logsThisIter, iterDispatched, dispatched, unlinked, faults, threw,
                 readPaths, isRunning, exitCode>>

\* the out-of-band edit that adds the other spelling, approve: true
ExternalApproveAlias ==
  /\ UNCHANGED sideVars
  /\ UNCHANGED <<stateFile, stateObj>>
  /\ pc = "top"
  /\ \E id \in DOMAIN proposals :
       /\ ~proposals[id].approve
       /\ proposals' = [proposals EXCEPT ![id].approve = TRUE, ![id].edited = TRUE]
  /\ UNCHANGED <<pc, iter, llmIter, boredom, logs, fsFiles, fsDirs, nextId, recentLogs,
                 approvedProposals, responseRaw, plan, planErrors, resultLog, executed, fx,
                 llmCalls, logsThisIter, iterDispatched, dispatched, unlinked, faults, threw,
                 readPaths, isRunning, exitCode>>

\* loop() or start() is suspended in an await: the points at which the
\* event loop can run the SIGINT handler
AwaitPoints == LlmStages \cup {"shell", "sleep"}

\* the SIGINT handler without its call of process.exit
sigintOutcomeNoExit(logThrows, fatal) == [exits |-> FALSE, code |-> -1]

\* How the SIGINT handler ends.  When Logger.log throws, the promise of the
\* async handler is rejected and nobody handles it: the runtime either
\* ends the process with code 1 (fatal) or only prints a warning.
sigintOutcome(logThrows, fatal) ==
  IF ~logThrows THEN [exits |-> TRUE, code |-> 0]
  ELSE IF fatal THEN [exits |-> TRUE, code |-> 1]
  ELSE [exits |-> FALSE, code |-> -1]

\* the handler registered by process.on('SIGINT', ...)
Sigint ==
  /\ UNCHANGED sideVars
  /\ UNCHANGED <<stateFile, stateObj>>
  /\ pc \in AwaitPoints
  /\ isRunning' = FALSE
  /\ \E logThrows \in LogThrows, fatal \in BOOLEAN :
       LET out == sigintOutcome(logThrows, fatal) IN
       /\ logThrows \/ ~fatal
       /\ logs' = IF logThrows THEN logs
                  ELSE Append(logs, LogEntry("STOP", <<>>, <<"terminated">>, 0))
       /\ faults' = IF logThrows THEN faults + 1 ELSE faults
       /\ pc' = IF out.exits THEN "exited" ELSE pc
       /\ exitCode' = out.code
  /\ UNCHANGED <<iter, llmIter, boredom, fsFiles, fsDirs, proposals, nextId, recentLogs,
                 approvedProposals, responseRaw, plan, planErrors, resultLog, executed, fx,
                 llmCalls, logsThisIter, iterDispatched, dispatched, unlinked, threw,
                 readPaths>>

\* while (this.isRunning) is false: start() returns and the process ends
LoopEnd ==
  /\ UNCHANGED sideVars
  /\ UNCHANGED <<stateFile, stateObj>>
  /\ pc = "top"
  /\ ~isRunning
  /\ pc' = "exited"
  /\ exitCode' = 0
  /\ UNCHANGED <<iter, llmIter, boredom, logs, fsFiles, fsDirs, proposals, nextId, recentLogs,
                 approvedProposals, responseRaw, plan, planErrors, resultLog, executed, fx,
                 llmCalls, logsThisIter, iterDispatched, dispatched, unlinked, faults, threw,
                 readPaths, isRunning>>

Next ==
  \/ LoopTop
  \/ Dispatch
  \/ ShellDone
  \/ LlmInitialReply
  \/ LlmParseRepairReply
  \/ LlmValidationRepairReply
  \/ Sleep
  \/ ExternalApprove

Spec == Init /\ [][Next]_vars

\* the agent without interrupt, with the scheduling the runtime gives: the
\* timer of the sleep fires, and the while loop then calls loop() again
SpecLive == Init /\ [][Next]_vars /\ WF_vars(Sleep) /\ WF_vars(LoopTop)

\* the agent with the interrupt signal
NextInterrupt ==
  \/ Next
  \/ Sigint
  \/ LoopEnd

SpecInterrupt == Init /\ [][NextInterrupt]_vars

\* ------------------------------------------- the dispatcher on its own
\* the values of proposal.type: the cases of the switch in executeProposal,
\* and CODE_EXECUTE, which it has no case for
proposalTypes ==
  {"SERVER_START", "INSTALL_PACKAGE", "SELF_MODIFY", "SHELL_COMMAND", "OTHER", "CODE_EXECUTE",
   "HTTP_REQUEST"}

\* the records a validated PROPOSAL plan can leave in proposals/: type,
\* title and details are there, command is optional
DispatchRecords ==
  {storedProposal([GoodProposal EXCEPT !.type = t, !.command = c]) :
     t \in proposalTypes, c \in {Absent, Str(<<"n">>)}}

\* the agent starts with MaxProposals records waiting in proposals/
InitDispatch ==
  /\ pc = "top"
  /\ iter = 0
  /\ llmIter = 0
  /\ boredom = 0
  /\ logs = <<>>
  /\ fsFiles = (pathResolve(Cwd, pA) :> <<"o">>)
  /\ fsDirs = {<<"/">>, Cwd, outputsDir}
  /\ proposals \in [1..MaxProposals -> DispatchRecords]
  /\ nextId = MaxProposals + 1
  /\ recentLogs = <<>>
  /\ approvedProposals = <<>>
  /\ responseRaw = 0
  /\ plan = NoPlan
  /\ planErrors = <<>>
  /\ resultLog = <<>>
  /\ executed = FALSE
  /\ fx = {}
  /\ llmCalls = 0
  /\ logsThisIter = 0
  /\ iterDispatched = {}
  /\ dispatched = [i \in 1..MaxProposals |-> 0]
  /\ unlinked = [i \in 1..MaxProposals |-> 0]
  /\ faults = 0
  /\ threw = FALSE
  /\ readPaths = {}
  /\ isRunning = TRUE
  /\ exitCode = -1
  /\ stateFile = EmptyState("missing")
  /\ stateObj = NullState
  /\ HttpInit
  /\ StoreInit
  /\ HandlerInit

\* the iterations that scan and dispatch; the language model does not answer
NextDispatch ==
  \/ LoopTop
  \/ Dispatch
  \/ Sleep
  \/ ExternalApprove
  \/ ExternalApproveAlias

SpecDispatch == InitDispatch /\ [][NextDispatch]_vars

\* ------------------------------------------- the validator on its own
\* proposal payloads that break none, one or several of the proposal rules
ValidatorProposals ==
  { NoProposal,
    GoodProposal,
    [GoodProposal EXCEPT !.title = Absent, !.risks = 0],
    [GoodProposal EXCEPT !.type = "CODE_EXECUTE", !.details = Str(<<"r">>)],
    [GoodProposal EXCEPT !.type = "CODE_EXECUTE", !.targetFile = Str(pSibling),
                         !.command = Str(<<"n">>), !.benefits = 0] }

\* the parsed objects handed to validatePlan
ValidatorInputs ==
  { [NoPlan EXCEPT !.type = t, !.action = a, !.command = c, !.target = g, !.proposal = q] :
      t \in {"", "OBSERVE", "FILE_READ", "SHELL", "FILE_WRITE", "PROPOSAL"},
      a \in {Absent, Str(sAct), Str(sRm), Num},
      c \in {Absent, Str(sLs), Str(sRm), Num},
      g \in {Absent, Str(pA)},
      q \in ValidatorProposals }

\* the recent log entries validatePlan closes over: none, or one whose raw
\* response is the cat of outputs/a (Responses[6])
ValidatorRecentLogs ==
  { <<>>, <<LogEntry("plan", sCatA, <<"output">>, 6)>> }

InitValidate ==
  /\ pc = "validate"
  /\ iter = 1
  /\ llmIter = 1
  /\ boredom = 0
  /\ logs = <<>>
  /\ fsFiles = (pathResolve(Cwd, pA) :> <<"o">>)
  /\ fsDirs = {<<"/">>, Cwd, outputsDir}
  /\ proposals = (1 :> storedProposal(GoodProposal))
  /\ nextId = 2
  /\ recentLogs \in ValidatorRecentLogs
  /\ approvedProposals = <<>>
  /\ responseRaw = 0
  /\ plan \in ValidatorInputs
  /\ planErrors = <<>>
  /\ resultLog = <<>>
  /\ executed = FALSE
  /\ fx = {}
  /\ llmCalls = 1
  /\ logsThisIter = 0
  /\ iterDispatched = {}
  /\ dispatched = [i \in 1..MaxProposals |-> 0]
  /\ unlinked = [i \in 1..MaxProposals |-> 0]
  /\ faults = 0
  /\ threw = FALSE
  /\ readPaths = {}
  /\ isRunning = TRUE
  /\ exitCode = -1
  /\ stateFile = EmptyState("missing")
  /\ stateObj = NullState
  /\ HttpInit
  /\ StoreInit
  /\ HandlerInit

\* let planErrors = validatePlan(plan): the list is returned, or a TypeError
\* leaves the function
ValidateCall ==
  /\ UNCHANGED sideVars
  /\ UNCHANGED <<stateFile, stateObj>>
  /\ pc = "validate"
  /\ pc' = "validated"
  /\ IF validateThrows(plan)
     THEN threw' = TRUE /\ UNCHANGED planErrors
     ELSE /\ planErrors' = validatePlan(plan, recentRawsOf(recentLogs), fsFiles, fsDirs)
          /\ UNCHANGED threw
  /\ UNCHANGED <<iter, llmIter, boredom, logs, fsFiles, fsDirs, proposals, nextId, recentLogs,
                 approvedProposals, responseRaw, plan, resultLog, executed, fx, llmCalls,
                 logsThisIter, iterDispatched, dispatched, unlinked, faults, readPaths,
                 isRunning, exitCode>>

NextValidate == ValidateCall

SpecValidate == InitValidate /\ [][NextValidate]_vars

\* the scan and the dispatch with the scheduling the runtime gives: the
\* passes of the for loop are straight-line code behind resolved promises,
\* the timer of the sleep fires, and the while loop calls loop() again
SpecDispatchLive ==
  InitDispatch /\ [][NextDispatch]_vars
    /\ WF_vars(LoopTop) /\ WF_vars(Dispatch) /\ WF_vars(Sleep)

\* ------------------------------------------- the proposal files by name
\* Logger.logProposal: the file is written under the name built from the
\* clock and the type, and the record inside carries the id
StoreLogProposal ==
  /\ storeNow < MaxStoreFiles
  /\ \E type \in StoreTypes :
       LET filename == proposalFilename(toJST(storeNow), type) IN
       proposalDir' = (filename :> [id |-> proposalIdOf(filename), type |-> type,
                                    approved |-> FALSE]) @@ proposalDir
  /\ storeNow' = storeNow + 1
  /\ UNCHANGED <<scanned, agentVars, httpVars, handlerVars>>

\* the out-of-band edit approved: true on one file
StoreApprove ==
  /\ \E f \in DOMAIN proposalDir :
       /\ ~proposalDir[f].approved
       /\ proposalDir' = [proposalDir EXCEPT ![f].approved = TRUE]
  /\ UNCHANGED <<scanned, storeNow, agentVars, httpVars, handlerVars>>

\* Logger.getApprovedProposals: every approved *.yaml file, with the id
\* recomputed from the file name
StoreScan ==
  /\ scanned = {}
  /\ scanned' = {[id |-> proposalIdOf(f), file |-> f] :
                   f \in {g \in DOMAIN proposalDir :
                            endsWith(g, dotYaml) /\ proposalDir[g].approved}}
  /\ scanned' # {}
  /\ UNCHANGED <<proposalDir, storeNow, agentVars, httpVars, handlerVars>>

\* Logger.deleteProposal(proposal.id) for one scanned proposal
StoreDelete ==
  /\ \E e \in scanned :
       LET filepath == proposalPath(e.id) IN
       /\ proposalDir' = [f \in DOMAIN proposalDir \ {filepath} |-> proposalDir[f]]
       /\ scanned' = scanned \ {e}
  /\ UNCHANGED <<storeNow, agentVars, httpVars, handlerVars>>

NextStore ==
  \/ StoreLogProposal
  \/ StoreApprove
  \/ StoreScan
  \/ StoreDelete

SpecStore == Init /\ [][NextStore]_vars

\* the scan and the dispatch next to an out-of-band cleanup of proposals/
NextRemoval ==
  \/ LoopTop
  \/ Dispatch
  \/ DispatchRaced
  \/ Sleep
  \/ ExternalApprove
  \/ ExternalRemove

SpecRemoval == InitDispatch /\ [][NextRemoval]_vars

\* -------------------------------- the agent over files found at the start
\* the lengths of the history that state.yaml holds at the start
HistoryLens == {1, HistoryCap - 1, HistoryCap, HistoryCap + 2}

\* a state file written by earlier runs, with n history entries
seedState(n) ==
  StateValue("object", Str(<<"g">>), List(<< <<"m">> >>), Str(<<"p">>), Str(<<"f">>),
             List(<< <<"k">> >>),
             [i \in 1..n |-> [timestamp |-> i, action |-> sAct, result |-> <<"output">>]])

\* state.yaml at the start: none, one that cannot be parsed, one that holds
\* a scalar, and files of earlier runs
StateFiles ==
  {EmptyState("missing"), EmptyState("unparsable"), EmptyState("scalar")}
  \cup {seedState(n) : n \in HistoryLens}

\* logs/ at the start: empty, or two entries around a file that cannot be
\* parsed
StateLogDirs ==
  { <<>>,
    << LogEntry("plan", sAct, <<"output">>, 1), Unparsable,
       LogEntry("plan", sAct, <<"output">>, 6) >> }

\* proposals/ at the start: one pending proposal, or an approved proposal
\* next to a file that cannot be parsed
StateProposalDirs ==
  { (1 :> storedProposal(GoodProposal)),
    (1 :> [storedProposal(GoodProposal) EXCEPT !.type = UnparsableType, !.approved = TRUE])
      @@ (2 :> [storedProposal(GoodProposal) EXCEPT !.approved = TRUE]) }

InitState ==
  /\ pc = "top"
  /\ iter = 0
  /\ llmIter = 0
  /\ boredom = 0
  /\ logs \in StateLogDirs
  /\ stateFile \in StateFiles
  /\ fsFiles = IF stateFile.tag = "missing"
               THEN (pathResolve(Cwd, pA) :> <<"o">>)
               ELSE (pathResolve(Cwd, pA) :> <<"o">>) @@ (statePath :> <<"y">>)
  /\ fsDirs = {<<"/">>, Cwd, outputsDir}
  /\ proposals \in StateProposalDirs
  /\ nextId = MaxProposals + 1
  /\ recentLogs = <<>>
  /\ approvedProposals = <<>>
  /\ responseRaw = 0
  /\ plan = NoPlan
  /\ planErrors = <<>>
  /\ resultLog = <<>>
  /\ executed = FALSE
  /\ fx = {}
  /\ llmCalls = 0
  /\ logsThisIter = 0
  /\ iterDispatched = {}
  /\ dispatched = [i \in 1..MaxProposals |-> 0]
  /\ unlinked = [i \in 1..MaxProposals |-> 0]
  /\ faults = 0
  /\ threw = FALSE
  /\ readPaths = {}
  /\ isRunning = TRUE
  /\ exitCode = -1
  /\ stateObj = NullState
  /\ HttpInit
  /\ StoreInit
  /\ HandlerInit

\* the reply to the initial chatOllama call arrives: a plan that passes
\* validation, with or without a state patch and an intent
LlmStateReply ==
  /\ UNCHANGED sideVars
  /\ UNCHANGED stateObj
  /\ pc = "llmInitial"
  /\ llmIter < MaxLlmIter
  /\ llmIter' = llmIter + 1
  /\ UNCHANGED <<isRunning, exitCode>>
  /\ \E r \in StateResponses :
       /\ responseRaw' = r
       /\ HandleReply("llmInitial", r, r)

NextState ==
  \/ LoopTop
  \/ Dispatch
  \/ LlmStateReply
  \/ ShellDone
  \/ Sleep

\* the agent started over the files of earlier runs
SpecState == InitState /\ [][NextState]_vars

\* ------------------------------------------- HttpClient: get/post/put/delete
\* the calls one run of the model starts, and the last clock value
MaxHttpCalls == 12

MaxHttpTicks == 2

\* the HTTP_REQUEST proposals one run dispatches
MaxHttpDispatches == 12

\* the calls of one run that the rate limiter turns down
MaxHttpRejects == 2

\* a checkRateLimit that never starts a new window
countNeverReset == requestCount

\* checkRateLimit: the counter after the reset test
countAfterReset ==
  IF httpNow - lastRequestTime > oneMinute THEN 0 ELSE requestCount

\* get / post / put / delete up to the await: request() runs checkRateLimit,
\* which throws when the counter has reached the limit, and then calls
\* axios(config) and suspends
HttpCall ==
  /\ Len(issued) < MaxHttpCalls
  /\ countAfterReset >= MAX_REQUESTS_PER_MINUTE => rejected < MaxHttpRejects
  /\ requestCount' = countAfterReset
  /\ IF countAfterReset >= MAX_REQUESTS_PER_MINUTE
     THEN /\ rejected' = rejected + 1
          /\ UNCHANGED <<inFlight, issued>>
     ELSE /\ inFlight' = inFlight + 1
          /\ issued' = Append(issued, httpNow)
          /\ UNCHANGED rejected
  /\ UNCHANGED <<httpNow, lastRequestTime>>
  /\ UNCHANGED <<agentVars, storeVars, handlerVars>>

\* await axios(config) resolves (any status below 600): the counter and the
\* time of the last request are updated
HttpResponse ==
  /\ inFlight > 0
  /\ inFlight' = inFlight - 1
  /\ requestCount' = requestCount + 1
  /\ lastRequestTime' = httpNow
  /\ UNCHANGED <<httpNow, issued, rejected>>
  /\ UNCHANGED <<agentVars, storeVars, handlerVars>>

\* await axios(config) rejects (timeout, transport failure): the catch block
\* rethrows and leaves both fields alone
HttpFailure ==
  /\ inFlight > 0
  /\ inFlight' = inFlight - 1
  /\ UNCHANGED <<httpNow, requestCount, lastRequestTime, issued, rejected>>
  /\ UNCHANGED <<agentVars, storeVars, handlerVars>>

\* time passes
HttpTick ==
  /\ httpNow < oneMinute + ClockStep + MaxHttpTicks * ClockStep
  /\ httpNow' = httpNow + ClockStep
  /\ UNCHANGED <<requestCount, lastRequestTime, inFlight, issued, rejected>>
  /\ UNCHANGED <<agentVars, storeVars, handlerVars>>

NextHttp ==
  \/ HttpCall
  \/ HttpResponse
  \/ HttpFailure
  \/ HttpTick

\* executeProposal has returned result: the pass of the dispatch loop
\* writes the log entry and deletes the file, or the write fails and the
\* catch writes the error entry, or that write fails too
HandlerFinish(result) ==
  \E outcome \in DispatchOutcomes :
    /\ hResult' = result
    /\ hPc' = "done"
    /\ CASE outcome = "logged" ->
              /\ hLog' = <<result>>
              /\ hStored' = FALSE
              /\ UNCHANGED <<faults, threw>>
         [] outcome = "firstLogFailed" ->
              /\ hLog' = << <<"error">> >>
              /\ hStored' = TRUE
              /\ faults' = faults + 1
              /\ UNCHANGED threw
         [] outcome = "bothLogsFailed" ->
              /\ hLog' = <<>>
              /\ hStored' = TRUE
              /\ faults' = faults + 2
              /\ threw' = TRUE

\* the dispatch loop takes an approved HTTP_REQUEST proposal and calls
\* executeProposal, which runs up to await this.httpClient.<method>(...)
\* or, when the url is missing or checkRateLimit throws, to its end
HttpDispatchBegin ==
  /\ hPc \in {"idle", "done"}
  /\ ~threw
  /\ hDispatches < MaxHttpDispatches
  /\ hDispatches' = hDispatches + 1
  /\ \E p \in HttpProposals :
       /\ hProposal' = p
       /\ IF ~Truthy(p.url)
          THEN /\ hSent' = <<>>
               /\ HandlerFinish(<<"handlerError">>)
               /\ UNCHANGED httpVars
          ELSE /\ Len(issued) < MaxHttpCalls
               /\ countAfterReset >= MAX_REQUESTS_PER_MINUTE => rejected < MaxHttpRejects
               /\ requestCount' = countAfterReset
               /\ UNCHANGED <<httpNow, lastRequestTime>>
               /\ IF countAfterReset >= MAX_REQUESTS_PER_MINUTE
                  THEN /\ rejected' = rejected + 1
                       /\ hSent' = <<>>
                       /\ HandlerFinish(<<"handlerError">>)
                       /\ UNCHANGED <<inFlight, issued>>
                  ELSE /\ inFlight' = inFlight + 1
                       /\ issued' = Append(issued, httpNow)
                       /\ hSent' = <<clientMethod(p.method)>>
                       /\ hPc' = "awaiting"
                       /\ hResult' = <<>>
                       /\ hLog' = <<>>
                       /\ hStored' = TRUE
                       /\ UNCHANGED <<rejected, faults, threw>>
  /\ UNCHANGED <<pc, iter, llmIter, boredom, logs, fsFiles, fsDirs, proposals, nextId,
                 recentLogs, approvedProposals, responseRaw, plan, planErrors, resultLog,
                 executed, fx, llmCalls, logsThisIter, iterDispatched, dispatched, unlinked,
                 readPaths, isRunning, exitCode, stateFile, stateObj>>
  /\ UNCHANGED storeVars

\* the request resolves: the client counts it, the handler pushes the status
\* and the body and saves the response under outputs/ (saved = FALSE:
\* fs.writeFileSync throws)
HttpDispatchResponse ==
  /\ hPc = "awaiting"
  /\ inFlight' = inFlight - 1
  /\ requestCount' = requestCount + 1
  /\ lastRequestTime' = httpNow
  /\ \E saved \in BOOLEAN :
       IF saved
       THEN /\ fsFiles' = (httpOut :> <<"j">>) @@ fsFiles
            /\ HandlerFinish(<<"httpStatus", "httpBody", "httpSaved">>)
       ELSE /\ UNCHANGED fsFiles
            /\ HandlerFinish(<<"httpStatus", "httpBody", "handlerError">>)
  /\ UNCHANGED <<httpNow, issued, rejected, hProposal, hSent, hDispatches>>
  /\ UNCHANGED <<pc, iter, llmIter, boredom, logs, fsDirs, proposals, nextId,
                 recentLogs, approvedProposals, responseRaw, plan, planErrors, resultLog,
                 executed, fx, llmCalls, logsThisIter, iterDispatched, dispatched, unlinked,
                 readPaths, isRunning, exitCode, stateFile, stateObj>>
  /\ UNCHANGED storeVars

\* the request fails (timeout, transport): the client throws into the catch
\* of executeProposal
HttpDispatchFailure ==
  /\ hPc = "awaiting"
  /\ inFlight' = inFlight - 1
  /\ HandlerFinish(<<"handlerError">>)
  /\ UNCHANGED <<httpNow, requestCount, lastRequestTime, issued, rejected, hProposal, hSent,
                 hDispatches>>
  /\ UNCHANGED <<pc, iter, llmIter, boredom, logs, fsFiles, fsDirs, proposals, nextId,
                 recentLogs, approvedProposals, responseRaw, plan, planErrors, resultLog,
                 executed, fx, llmCalls, logsThisIter, iterDispatched, dispatched, unlinked,
                 readPaths, isRunning, exitCode, stateFile, stateObj>>
  /\ UNCHANGED storeVars

NextHttpDispatch ==
  \/ HttpDispatchBegin
  \/ HttpDispatchResponse
  \/ HttpDispatchFailure

\* the dispatch of approved HTTP_REQUEST proposals, one after the other
SpecHttpDispatch == Init /\ [][NextHttpDispatch]_vars

\* one HttpClient and its callers
SpecHttp == Init /\ [][NextHttp]_vars

\* ================================================================ claims
segmentsOf(p) == normalizeSegments(split(p, "/"), <<>>)

\* the target resolves to outputs/ or to a path beneath it, compared
\* segment by segment
InsideRootByComponent(target) ==
  /\ Truthy(target)
  /\ IsString(target)
  /\ LET r == segmentsOf(pathResolve(Cwd, target.s))
         o == segmentsOf(outputsDir)
     IN  Len(r) >= Len(o) /\ SubSeq(r, 1, Len(o)) = o

\* the effects that step 3 performs for a plan
GatedFx(effects) == {e \in effects : e.kind \in {"spawn", "write", "append", "proposal"}}

\* the command text of a SHELL plan as the claim words it
commandText(p) ==
  IF Truthy(p.command) /\ IsString(p.command) THEN p.command.s
  ELSE IF Truthy(p.action) /\ IsString(p.action) THEN p.action.s ELSE <<>>

\* C1: a FILE_WRITE plan whose resolved target is neither outputs/ nor
\* beneath it (by path component) causes no write, append or mkdir and
\* yields the blocked-result line.
C1_OutsideRootBlocked ==
  (executed /\ plan.type = "FILE_WRITE" /\ ~InsideRootByComponent(plan.target)) =>
    /\ ~\E e \in fx : e.kind \in {"write", "append", "mkdir"}
    /\ resultLog = <<"blocked">>

\* C2: for a SHELL plan a process is spawned iff the first space-delimited
\* token of the command is allow-listed and the command holds neither '>'
\* nor '|'; otherwise nothing is spawned, and an allow-listed command with
\* '>' or '|' yields the redirect-forbidden result line.
C2_ShellSpawnIff ==
  LET spawned == \E e \in fx : e.kind = "spawn"
      text == commandText(plan)
      listed == Head(split(text, " ")) \in allowedShellCommands
      redirect == \E i \in 1..Len(text) : text[i] \in {">", "|"}
  IN  IF executed /\ plan.type = "SHELL"
      THEN /\ spawned <=> (listed /\ ~redirect)
           /\ (listed /\ redirect) => resultLog = <<"redirectForbidden">>
      ELSE ~spawned

C2_Witness ==
  /\ executed
  /\ plan.type = "SHELL"
  /\ \E i \in 1..Len(commandText(plan)) : commandText(plan)[i] = ">"
  /\ resultLog = <<"redirectForbidden">>
  /\ GatedFx(fx) = {}

\* C3: every stored proposal record that no out-of-band edit has touched
\* has approved = false, whatever the model put into the payload.
C3_CreatedUnapproved ==
  \A id \in DOMAIN proposals : ~proposals[id].edited => ~proposals[id].approved

\* C4: at the end of an iteration that dispatched approved proposals, each
\* of them is absent from the store and was unlinked exactly once.
C4_DispatchedThenDeleted ==
  pc = "sleep" =>
    \A id \in iterDispatched : id \notin DOMAIN proposals /\ unlinked[id] = 1

\* C5: no stored proposal record is handed to executeProposal more than
\* once, over any sequence of iterations.
C5_DispatchedAtMostOnce == \A id \in DOMAIN dispatched : dispatched[id] <= 1

\* C6: in an iteration whose scan finds an approved proposal the language
\* model is never invoked and no plan is parsed, validated or executed.
C6_ApprovedScanPreempts ==
  (pc = "dispatch" \/ iterDispatched # {}) =>
    /\ pc \in {"dispatch", "sleep"}
    /\ llmCalls = 0
    /\ responseRaw = 0
    /\ plan = NoPlan
    /\ ~executed
    /\ GatedFx(fx) = {}

C6_Witness == pc = "sleep" /\ iterDispatched # {} /\ logsThisIter >= 1

\* C7: a scan of the proposal store in which no record has approved = true
\* returns the empty list and leaves every stored record as it was.
C7_ScanWithoutApprovedIsNoOp ==
  [][(/\ pc = "top"
      /\ pc' # "top"
      /\ \A id \in DOMAIN proposals : ~proposals[id].approved)
     => (approvedProposals' = <<>> /\ proposals' = proposals)]_vars

C7_Witness ==
  /\ pc = "llmInitial"
  /\ approvedProposals = <<>>
  /\ \E id \in DOMAIN proposals : proposals[id].approve /\ ~proposals[id].approved

\* C8: every iteration writes exactly one ActionLog entry, on every path.
C8_OneLogPerIteration == pc = "sleep" => logsThisIter = 1

\* C9: an iteration invokes the language model at most three times (the
\* initial request, one parse repair, one validation repair) and ends
\* after the reply to the validation repair.
C9_AtMostThreeLlmCalls ==
  /\ llmCalls <= 3
  /\ pc = "llmInitial" => llmCalls = 1
  /\ pc = "llmParseRepair" => llmCalls = 2
  /\ pc = "llmValidationRepair" => llmCalls \in {2, 3}

C9_Witness == pc = "sleep" /\ llmCalls = 3

\* C10: a spawn, a file write or append, or a stored proposal happens only
\* for a plan on which the validator returned no violation; an iteration
\* that ends with violations left has executed nothing.
C10_EffectsOnlyForValidatedPlan ==
  [][/\ (GatedFx(fx') # {} /\ GatedFx(fx) = {}) =>
          /\ executed'
          /\ ~validateThrows(plan')
          /\ validatePlan(plan', recentRawsOf(recentLogs), fsFiles, fsDirs) = <<>>
     /\ (pc' = "sleep" /\ planErrors' # <<>>) =>
          (~executed' /\ GatedFx(fx') = {})]_vars

C10_Witness == pc = "sleep" /\ executed /\ llmCalls = 3 /\ GatedFx(fx) # {}

C12_ReadBeforeOverwrite ==
  [][\A e \in fx' \ fx :
       (/\ plan'.type = "FILE_WRITE"
        /\ e.kind \in {"write", "append"}
        /\ e.arg \in DOMAIN fsFiles) => e.arg \in readPaths]_vars

\* the proposal payload p satisfies every rule the validator is to enforce
WellFormedProposal(p) ==
  /\ p.present
  /\ p.type # ""
  /\ Truthy(p.title) /\ Truthy(p.reasoning) /\ Truthy(p.details)
  /\ p.title # p.reasoning
  /\ p.details # p.reasoning
  /\ IsString(p.details) /\ Len(trim(p.details.s)) >= MinDetailsLen
  /\ p.risks > 0 /\ p.benefits > 0
  /\ p.type = "CODE_EXECUTE" =>
       /\ Truthy(p.targetFile) /\ Truthy(p.command)
       /\ InsideRootByComponent(p.targetFile)
       /\ existsSync(fsFiles, fsDirs, pathResolve(Cwd, p.targetFile.s))

\* C13: a PROPOSAL plan passes validation only if its proposal has type,
\* title, reasoning and details, title and details differ from reasoning,
\* details has the minimum length, risks and benefits are non-empty, and,
\* for CODE_EXECUTE, targetFile and command are present and targetFile
\* resolves inside the confined root and exists.
C13_ValidProposalIsWellFormed ==
  (executed /\ plan.type = "PROPOSAL") => WellFormedProposal(plan.proposal)

\* C14: the scan returns, for dispatch, every stored record whose flag
\* approved or whose alias flag approve is true.
C14_AliasFlagHonoured ==
  [][(pc = "top" /\ pc' # "top") =>
       \A id \in DOMAIN proposals :
         (proposals[id].approved \/ proposals[id].approve) =>
           /\ pc' = "dispatch"
           /\ \E k \in 1..Len(approvedProposals') : approvedProposals'[k].id = id]_vars

\* the proposal types whose handler is a stub
stubTypes == {"SERVER_START", "INSTALL_PACKAGE", "SELF_MODIFY", "SHELL_COMMAND"}

\* the result lines that say the function is not available
notAvailableLines ==
  {"serverStartUnimplemented", "installDisabled", "selfModifyDisabled", "manualOnly"}

\* C15: the dispatch of an approved proposal of type SERVER_START,
\* INSTALL_PACKAGE, SELF_MODIFY or SHELL_COMMAND, whatever optional fields
\* it has, returns a non-empty result list with the not-available line,
\* that line is in the ActionLog entry of the attempt, and nothing is
\* spawned or written.
C15_StubsFailClosed ==
  [][(/\ pc = "dispatch"
      /\ Head(approvedProposals).type \in stubTypes
      /\ faults' = faults) =>
       /\ resultLog' # <<>>
       /\ \E i \in 1..Len(resultLog') : resultLog'[i] \in notAvailableLines
       /\ Len(logs') = Len(logs) + 1
       /\ logs'[Len(logs')].result = resultLog'
       /\ GatedFx(fx') = {}
       /\ fsFiles' = fsFiles
       /\ fsDirs' = fsDirs]_vars

C17_LoggedActionResetsBoredom ==
  (/\ pc = "sleep"
   /\ logsThisIter > 0
   /\ \/ executed
      \/ iterDispatched # {} /\ logs[Len(logs)].result # <<"error">>) => boredom = 0

\* the plan type and the target that a log entry records
entryType(entry) ==
  IF entry.raw = 0 \/ ~hasBody(Responses[entry.raw]) THEN ""
  ELSE Responses[entry.raw].body.type

entryTarget(entry) ==
  IF entry.raw = 0 \/ ~hasBody(Responses[entry.raw]) THEN Absent
  ELSE Responses[entry.raw].body.target

\* what the two newest entries of the log directory add to boredom
expectedIncrement(allLogs) ==
  IF Len(allLogs) < 2 THEN 0
  ELSE LET last == allLogs[Len(allLogs)]
           prev == allLogs[Len(allLogs) - 1]
           \* a fixed literal (any kind but "plan") is never the empty string
           nonEmpty == last.action.kind # "plan" \/ last.action.text # <<>>
       IN  (IF last.action = prev.action /\ nonEmpty THEN 3 ELSE 0)
           + (IF /\ entryType(last) = "FILE_WRITE"
                 /\ entryType(prev) = "FILE_WRITE"
                 /\ IsString(entryTarget(last))
                 /\ entryTarget(last).s # <<>>
                 /\ entryTarget(last) = entryTarget(prev)
              THEN 5 ELSE 0)

repliesAt(stage) == IF stage = "llmInitial" THEN PlainResponses ELSE RepairResponses

\* what the reply r does to the iteration, told without the boredom value:
\* the parse and validation outcome and the effects follow from the reply,
\* the recent logs, the files and the proposal store alone
explainedBy(r) ==
  LET parsed == parsePlan(Responses[r])
      p == parsed.plan
      valid == /\ parsed.ok
               /\ ~validateThrows(p)
               /\ validatePlan(p, recentRawsOf(recentLogs), fsFiles, fsDirs) = <<>>
      runs == valid /\ ~(Truthy(p.target) /\ ~IsString(p.target))
  IN  /\ parsed.ok => plan' = p
      /\ ~parsed.ok => plan' = plan
      /\ executed' = runs
      /\ (parsed.ok /\ ~validateThrows(p)) =>
            planErrors' = validatePlan(p, recentRawsOf(recentLogs), fsFiles, fsDirs)
      /\ ~runs => (GatedFx(fx') = {} /\ fsDirs' = fsDirs /\ proposals' = proposals)
      /\ (runs /\ p.type = "SHELL" /\ shellRuns(p)) =>
            (pc' = "shell" /\ GatedFx(fx') = {Fx("spawn", rawCommandOf(p).s)})
      /\ (runs /\ ~(p.type = "SHELL" /\ shellRuns(p))) =>
                   LET ex == executePlan(p, TRUE) IN
                   /\ GatedFx(fx') = GatedFx(ex.fx)
                   /\ resultLog' = ex.resultLog
                   /\ fsDirs' = ex.fsDirs
                   /\ proposals' = ex.proposals
                   /\ \A f \in DOMAIN ex.fsFiles :
                        f \in DOMAIN fsFiles' /\ (f # statePath => fsFiles'[f] = ex.fsFiles[f])

\* C19: boredom never gates execution.  Every step of an iteration is
\* determined by the logs, the files, the proposal store and the model's
\* reply: the scan decides by the store alone, and a reply is parsed,
\* validated and executed with the same outcome and the same effects
\* whatever the boredom value is.
C19_BoredomNeverGates ==
  [][/\ (pc = "top" /\ pc' # "top") =>
          pc' = IF \E id \in DOMAIN proposals : proposals[id].approved = TRUE
                THEN "dispatch" ELSE "llmInitial"
     /\ pc = "dispatch" =>
          /\ iterDispatched' = iterDispatched \cup {Head(approvedProposals).id}
          /\ GatedFx(fx') = {}
     /\ pc \in LlmStages => \E r \in repliesAt(pc) : explainedBy(r)
     /\ pc = "shell" =>
          \E shellOk \in BOOLEAN :
            LET ex == executePlan(plan, shellOk) IN
            /\ GatedFx(fx') = GatedFx(fx \cup ex.fx)
            /\ resultLog' = ex.resultLog]_vars

C19_Witness ==
  /\ pc = "sleep"
  /\ executed
  /\ GatedFx(fx) # {}
  /\ Len(logs) = 2
  /\ logs[1].action.kind \in {"parseFailed", "repairFailed"}
  /\ logs[2].action.kind = "plan"

\* the terminal entry that the SIGINT handler writes
stopEntry == LogEntry("STOP", <<>>, <<"terminated">>, 0)

C21_InterruptLetsIterationFinish ==
  [][(pc \in LlmStages \cup {"shell"}) =>
       /\ pc' # "exited"
       /\ pc' = "sleep" => (logsThisIter' >= 1 \/ threw')]_vars

\* C22: without an interrupt the loop never stops: after every iteration,
\* also one that ended by an exception, a next iteration begins (as far as
\* the bound MaxIter lets the model go).
C22_NextIterationBegins ==
  \A n \in 1..(MaxIter - 1) : (pc = "sleep" /\ iter = n) ~> (iter = n + 1)

C22_Witness ==
  /\ iter = 2
  /\ pc = "llmInitial"
  /\ logs = <<>>
  /\ faults = 0

\* a raw response that holds a well-formed JSON object between its tokens
hasJsonObject(raw) ==
  \E i \in 1..(Len(raw.toks) - 2) :
     SubSeq(raw.toks, i, i + 2) = <<"{", "BODY", "}">>

\* C23: a raw model output that holds a balanced top-level JSON object,
\* whatever prose (also prose with braces) and code fences surround it, is
\* parsed: the parse-repair call is only made for outputs without an object.
C23_BalancedObjectParses ==
  pc = "llmParseRepair" => ~hasJsonObject(Responses[responseRaw])

\* the file at path t in the file system files ("none" when there is none)
fileAt(files, t) == IF t \in DOMAIN files THEN Str(files[t]) ELSE Absent

\* C24: a FILE_WRITE plan whose target lies inside outputs/ and that is
\* executed appends its content to the file when appendMode is true and makes
\* it the whole content otherwise, after creating the missing parent
\* directories; the result line names the mode that ran, and names a failure
\* only when nothing was written (content that is no string, a target that
\* is a directory, a parent that is a file).
C24_FileWriteModes ==
  [][(pc \in LlmStages /\ pc' = "sleep" /\ executed' /\ plan'.type = "FILE_WRITE"
        /\ InsideRootByComponent(plan'.target)) =>
       LET t == pathResolve(Cwd, plan'.target.s)
           dir == pathDirname(t)
           old == IF t \in DOMAIN fsFiles THEN fsFiles[t] ELSE <<>>
           accepted == /\ IsString(plan'.content)
                       /\ t \notin fsDirs
                       /\ \A a \in ancestors(dir) : a \notin DOMAIN fsFiles
       IN  /\ resultLog' \in {<<"appended">>, <<"overwritten">>, <<"writeFailed">>}
           /\ accepted => resultLog' # <<"writeFailed">>
           /\ resultLog' = <<"appended">> =>
                /\ plan'.appendMode = TRUE
                /\ fileAt(fsFiles', t) = Str(old \o plan'.content.s)
           /\ resultLog' = <<"overwritten">> =>
                /\ plan'.appendMode # TRUE
                /\ fileAt(fsFiles', t) = Str(plan'.content.s)
           /\ resultLog' = <<"writeFailed">> => fileAt(fsFiles', t) = fileAt(fsFiles, t)
           /\ resultLog' # <<"writeFailed">> => ancestors(dir) \subseteq fsDirs']_vars

C24_Witness ==
  /\ pc = "sleep"
  /\ executed
  /\ plan = WritePlan(Str(pA), Str(<<"h">>), TRUE)
  /\ resultLog = <<"appended">>
  /\ fileAt(fsFiles, pathResolve(Cwd, pA)) = Str(<<"o", "h">>)

\* C25: one HttpClient issues at most 10 requests in any rolling window
\* of 60 seconds, whatever the interleaving of its calls and whether they
\* end in a response or in a failure.
C25_RateLimit ==
  Cardinality({i \in DOMAIN issued : issued[i] > httpNow - oneMinute})
    <= MAX_REQUESTS_PER_MINUTE

\* C26: once a plan has been parsed, nothing that goes wrong while it is
\* validated or executed escapes the iteration: the iteration reaches the
\* step that writes the ActionLog entry (the entry is written, or that write
\* itself fails).
C26_ParsedPlanReachesLog ==
  [][(pc \in LlmStages \cup {"shell"} /\ pc' = "sleep" /\ plan' # NoPlan) =>
       (logsThisIter' > logsThisIter \/ faults' > faults)]_vars

\* the newest five log files, newest first, without those that cannot be
\* parsed
readableRecent(allLogs) ==
  LET n == IF Len(allLogs) < 5 THEN Len(allLogs) ELSE 5 IN
  SelectSeq([i \in 1..n |-> allLogs[Len(allLogs) + 1 - i]],
            LAMBDA file : file.action.kind # "unparsable")

\* C27: a log file, a proposal file or a state file that is corrupt or
\* missing does not abort the iteration: the observation skips the log and
\* proposal files it cannot parse and returns the others, takes a state it
\* cannot read as absent, and goes on to the decision (the dispatch of the
\* approved proposals or the request to the language model).
C27_CorruptFilesSkipped ==
  [][(pc = "top" /\ pc' # "top") =>
       /\ pc' \in {"dispatch", "llmInitial"}
       /\ ~threw'
       /\ recentLogs' = readableRecent(logs)
       /\ {approvedProposals'[k].id : k \in 1..Len(approvedProposals')}
            = {i \in DOMAIN proposals : /\ proposals[i].type # "unparsable"
                                        /\ proposals[i].approved}
       /\ stateObj' = IF stateFile.tag \in {"object", "scalar"}
                      THEN stateFile ELSE EmptyState("null")]_vars

C27_Witness ==
  /\ pc = "dispatch"
  /\ iter = 1
  /\ Len(logs) = 3
  /\ logs[2].action.kind = "unparsable"
  /\ recentLogs = <<logs[3], logs[1]>>
  /\ stateFile.tag = "unparsable"
  /\ stateObj.tag = "null"
  /\ proposals[1].type = "unparsable"
  /\ Len(approvedProposals) = 1
  /\ approvedProposals[1].id = 2

\* the history of the persisted state ("object" files only)
persistedHistory(file) == IF file.tag = "object" THEN file.history ELSE <<>>

\* C28: every write of the continuity state leaves a history of at most 20
\* entries: the entries of the file read before, followed by the entry of
\* this iteration, cut from the front to the last 20, in their order; also
\* when the file held more than 20 entries.
C28_HistoryCapped ==
  [][stateFile' # stateFile =>
       LET all == Append(persistedHistory(stateFile),
                         [timestamp |-> timestampOf(iter), action |-> plan'.action.s,
                          result |-> resultLog'])
           h == stateFile'.history
       IN  /\ Len(h) <= 20
           /\ Len(h) = (IF Len(all) < 20 THEN Len(all) ELSE 20)
           /\ \A k \in 1..Len(h) : h[k] = all[Len(all) - Len(h) + k]]_vars

C28_Witness ==
  /\ stateFile.tag = "object"
  /\ Len(stateFile.history) = 20
  /\ stateFile.history[1].timestamp = 4
  /\ stateFile.history[19].timestamp = 22
  /\ stateFile.history[20].timestamp > StateEpoch

\* the fields of the continuity state that the patch of a plan can set
patchFields == {"goal", "milestones", "progress", "nextFocus", "blockers"}

\* a value that holds the filtered term: a text that contains it, or an
\* array with such a text
mentionsTerm(v) ==
  \/ v.tag = "str" /\ includes(v.s, boredomTerm)
  \/ v.tag = "list" /\ \E k \in 1..Len(v.s) : includes(v.s[k], boredomTerm)

\* C29: after every write of the continuity state, no field taken from the
\* patch of the plan (goal, milestones, progress, nextFocus, blockers) holds
\* a value with the filtered term.
C29_FilteredNeverPersisted ==
  [][stateFile' # stateFile =>
       \A f \in patchFields :
          (plan'.state.present /\ stateFile'[f] = plan'.state[f])
            => ~mentionsTerm(stateFile'[f])]_vars

removedExternally ==
  /\ pc = "dispatch"
  /\ approvedProposals # <<>>
  /\ approvedProposals' # approvedProposals
  /\ faults' = faults
  /\ unlinked' = unlinked

\* C31 as stated: whenever the file was removed from outside, also between
\* the existence check and the unlink, the deletion is a no-op: the pass
\* leaves the one log entry of the dispatch and nothing else.
C31_RemovalIsNoOp ==
  [][removedExternally =>
       /\ logs' = Append(logs, LogEntry("executeProposal", <<Head(approvedProposals).type>>,
                                        executeProposal(Head(approvedProposals)), 0))
       /\ ~threw']_vars

\* C31: a proposal whose file is removed from outside after the scan is
\* still dispatched and logged, the iteration does not fail and the loop goes
\* on; when the file is gone before the existence check the deletion is a
\* no-op, and when it goes between the check and the unlink the exception is
\* caught and recorded in one more log entry.
C31_RemovalTolerated ==
  [][removedExternally =>
       LET proposal == Head(approvedProposals)
           entry == LogEntry("executeProposal", <<proposal.type>>,
                             executeProposal(proposal), 0)
       IN  /\ dispatched'[proposal.id] = dispatched[proposal.id] + 1
           /\ Len(logs') > Len(logs)
           /\ logs'[Len(logs) + 1] = entry
           /\ proposal.id \notin DOMAIN proposals => logs' = Append(logs, entry)
           /\ proposal.id \notin DOMAIN proposals'
           /\ ~threw'
           /\ pc' \in {"dispatch", "sleep"}
           /\ approvedProposals' = Tail(approvedProposals)]_vars

C31_Witness ==
  /\ pc = "sleep"
  /\ ~threw
  /\ faults = 0
  /\ logsThisIter = 1
  /\ \E id \in 1..MaxProposals :
       /\ id \notin DOMAIN proposals
       /\ dispatched[id] = 1
       /\ unlinked[id] = 0

brokenRules(c) ==
  LET q == c.proposal
      isProposal == c.type = "PROPOSAL" /\ q.present
      wantsFile == isProposal /\ q.type = "CODE_EXECUTE"
  IN  {r \in {"badType", "fileRead", "noAction", "shellCommand", "noProposal",
              "proposalRequired", "titleIsReasoning", "detailsIsReasoning", "detailsShort",
              "risks", "benefits", "noTargetFile", "noCommand", "targetFileMissing",
              "unreadOverwrite"} :
        CASE r = "badType" -> c.type \notin allowedTypes
          [] r = "fileRead" -> c.type = "FILE_READ"
          [] r = "noAction" -> ~(IsString(c.action) /\ c.action.s # <<>>)
          [] r = "shellCommand" ->
               c.type = "SHELL" /\ firstToken(rawCommandOf(c)) \notin allowedShellCommands
          [] r = "noProposal" -> c.type = "PROPOSAL" /\ ~q.present
          [] r = "proposalRequired" ->
               isProposal /\ (q.type = "" \/ \E v \in {q.title, q.reasoning, q.details} : ~Truthy(v))
          [] r = "titleIsReasoning" -> isProposal /\ Truthy(q.title) /\ q.title = q.reasoning
          [] r = "detailsIsReasoning" -> isProposal /\ Truthy(q.details) /\ q.details = q.reasoning
          [] r = "detailsShort" ->
               isProposal /\ IsString(q.details) /\ q.details.s # <<>>
                /\ Len(trim(q.details.s)) < MinDetailsLen
          [] r = "risks" -> isProposal /\ q.risks = 0
          [] r = "benefits" -> isProposal /\ q.benefits = 0
          [] r = "noTargetFile" -> wantsFile /\ ~Truthy(q.targetFile)
          [] r = "noCommand" -> wantsFile /\ ~Truthy(q.command)
          [] r = "targetFileMissing" ->
               wantsFile /\ IsString(q.targetFile) /\ q.targetFile.s # <<>>
                /\ (~startsWith(pathResolve(Cwd, q.targetFile.s), outputsDir)
                    \/ ~existsSync(fsFiles, fsDirs, pathResolve(Cwd, q.targetFile.s)))
          [] r = "unreadOverwrite" ->
               unreadOverwrite(c, recentRawsOf(recentLogs), fsFiles, fsDirs) }

C34_IdIsStableKey ==
  [][/\ \A f \in DOMAIN proposalDir' :
          /\ proposalPath(proposalDir'[f].id) = f
          /\ \E n \in 0..(MaxStoreFiles - 1) :
               proposalDir'[f].id
                 = SubSeq(proposalFilename(toJST(n), <<>>), 1, Len(toJST(n)))
                   \o <<"_">> \o proposalDir'[f].type
     /\ \A e \in scanned' :
          e.file \in DOMAIN proposalDir' => e.id = proposalDir'[e.file].id
     /\ \A e \in scanned \ scanned' :
          DOMAIN proposalDir' = DOMAIN proposalDir \ {e.file}]_vars

\* C35: an iteration that is suspended in a call of the language model or
\* in a shell command always gets to its end, also when the call or the
\* command never completes on its own.
C35_SuspensionsEnd ==
  (pc \in LlmStages \cup {"shell"}) ~> (pc = "sleep")

\* the record rec is one the scan returns: it parses and approved is true
scanReturns(rec) == rec.type # UnparsableType /\ rec.approved = TRUE

\* C36: a stored record that does not parse or whose approved field is not
\* true is not handed to a handler, not unlinked and not changed by any step
\* of the agent; a record leaves the store only in the step that dispatches
\* it as an approved record and unlinks its file.
C36_UnapprovedStays ==
  [][\A id \in DOMAIN proposals :
       /\ ~scanReturns(proposals[id]) =>
            /\ dispatched'[id] = dispatched[id]
            /\ unlinked'[id] = unlinked[id]
            /\ id \in DOMAIN proposals'
            /\ proposals'[id] = proposals[id]
       /\ id \notin DOMAIN proposals' =>
            /\ scanReturns(proposals[id])
            /\ dispatched'[id] = dispatched[id] + 1
            /\ unlinked'[id] = unlinked[id] + 1]_vars

C36_Witness ==
  /\ iter >= 2
  /\ pc = "sleep"
  /\ 1 \in DOMAIN proposals
  /\ proposals[1].type = UnparsableType
  /\ proposals[1].approved
  /\ dispatched[1] = 0
  /\ 2 \notin DOMAIN proposals
  /\ dispatched[2] = 1
  /\ unlinked = (1 :> 0) @@ (2 :> 1)

httpCalled == rejected' # rejected \/ issued' # issued

\* C38: a call that the rate limiter rejects leaves the request counter and
\* the time of the last request as they were; a call made more than 60
\* seconds after the last completed request sets the counter to 0 and is
\* accepted, however many calls were rejected before it; and nothing else
\* sets the counter back.
C38_RejectionAndReset ==
  [][/\ rejected' # rejected =>
          /\ requestCount' = requestCount
          /\ lastRequestTime' = lastRequestTime
          /\ requestCount >= MAX_REQUESTS_PER_MINUTE
          /\ httpNow - lastRequestTime <= oneMinute
     /\ (httpCalled /\ httpNow - lastRequestTime > oneMinute) =>
          /\ requestCount' = 0
          /\ issued' = Append(issued, httpNow)
     /\ requestCount' < requestCount =>
          /\ httpCalled
          /\ httpNow - lastRequestTime > oneMinute
          /\ requestCount' = 0]_vars

C38_Witness ==
  /\ rejected = MaxHttpRejects
  /\ Len(issued) = MAX_REQUESTS_PER_MINUTE + 1
  /\ requestCount = 0
  /\ inFlight = 1
  /\ httpNow - lastRequestTime > oneMinute

\* the proposal types the switch of executeProposal has a case for
handledTypes == {"SERVER_START", "INSTALL_PACKAGE", "SELF_MODIFY", "SHELL_COMMAND", "OTHER"}

expectedMethod(p) == IF p.method \in {"POST", "PUT", "DELETE"} THEN p.method ELSE "GET"

\* the end of a dispatch: every handler error has become a result line, and
\* the record is logged with the result and deleted unless the write of a log
\* file has failed
dispatchSettled ==
  /\ hResult # <<>>
  /\ hSent = <<>> => hResult = <<"handlerError">>
  /\ \/ hLog = <<hResult>> /\ ~hStored
     \/ faults > 0

====
